---- MODULE Spec2Model ----
(***************************************************************************)
(* Session and resource manager of the UStore Arrow Flight server          *)
(* (src/src/flight_server.cpp): the pool of transaction handles and        *)
(* arenas, the (client, transaction) -> running_txn_t map, idle eviction,  *)
(* and the handlers that acquire and release sessions (txn_begin,          *)
(* txn_commit, and the data verbs through sessions_t::lock).               *)
(*                                                                         *)
(* Every sessions_t method runs under mutex_, so each is one atomic step.  *)
(* The engine calls between them run without the mutex: a handler is a     *)
(* sequence of steps, interleaved with the steps of the other handlers.    *)
(***************************************************************************)
EXTENDS Integers, Sequences, FiniteSets, TLC

\* ------------------------------------------------------------------ bounds

\* Number of pool slots: the `n` of sessions_t(db, n).
Capacity == 2

\* Number of transport threads running handlers concurrently.
NumHandlers == 2

\* Number of times the clock is advanced.
MaxTicks == 1

\* Number of requests the transport delivers in one run.
MaxRequests == 5

\* How many entries beyond Capacity a free stack may grow to.
MaxSurplus == 1

\* Number of commands the transport delivers when each is served in full.
MaxServed == 3

\* Resolution of sys_clock_t: clock ticks per millisecond.
ClockTicksPerMs == 2

\* sessions_t::milliseconds_timeout
milliseconds_timeout == 30000

Handlers == 1 .. NumHandlers

\* client_id_t values (hash of the peer address) and txn_id_t values seen on
\* the wire; 0 is "no transaction".
ClientIds == {1}
TxnIds == {0, 1, 2}

\* session_id_t
SessionIds == [client_id : ClientIds, txn_id : TxnIds]

\* ustore_arena_t / ustore_transaction_t: the pool slots, 0 is nullptr.
NullHandle == 0
Slots == 1 .. Capacity

\* running_txn_t {} : all members value-initialised.
NullRunning == [txn |-> NullHandle, arena |-> NullHandle, last_access |-> 0, executing |-> FALSE]

NoSession == [client_id |-> 0, txn_id |-> 0]

\* ------------------------------------------------------------------- state

VARIABLES
    free_arenas_,   \* std::vector<ustore_arena_t>, back of the vector is the tail
    free_txns_,     \* std::vector<ustore_transaction_t>
    client_to_txn_, \* unordered_map<session_id_t, running_txn_t>
    now,            \* sys_clock_t::now(), in clock ticks
    ticks,          \* how often the clock advanced
    requests,       \* how many requests the transport has delivered
    pc,             \* per handler thread: where it is in its handler
    sid,            \* per handler thread: params.session_id
    session,        \* per handler thread: its local running_txn_t / session_lock_t
    status,         \* per handler thread: the status_t of the running handler
    ret,            \* what the step just taken returned to the transport, if it was a return
    evicted,        \* the session the step just taken evicted, if it evicted one
    crashed         \* the process died on an invalid iterator dereference

\* param_value, called on its own
VARIABLES
    query_params,   \* the argument query_params, one character per element
    param_name,     \* the argument param_name
    found           \* the std::optional<std::string_view> returned, once the call is made

paramVars == <<query_params, param_name, found>>

\* the storage engine behind the handlers, and the request each handler serves
VARIABLES
    store,          \* the engine: the committed entry of every key of the main collection
    txn_writes,     \* the engine: per transaction handle, the entries written under it
    last_write,     \* the write the engine applied last, while nothing else has changed the engine since
    cmd             \* per handler thread: the command it serves and what it has done for it

engineVars == <<store, txn_writes, last_write>>

\* the marshalling of a response, on its own
VARIABLES
    request,        \* the verb, the part asked for, the rows of the input batch and what the engine found
    batch           \* the ArrowSchema / ArrowArray pair built for the response, once it is built

shapeVars == <<request, batch>>

\* is_query, called on its own
VARIABLES
    command,        \* the argument uri, one character per element
    matched         \* the name is_query was called with and what it returned, once the call is made

\* ustore_to_arrow_column / ustore_to_arrow_list, called on their own
VARIABLES
    column_args,    \* the function called and its arguments
    column_built    \* the ArrowSchema / ArrowArray pair of the column, once it is filled in

queryVars == <<command, matched, column_args, column_built>>

vars == <<free_arenas_, free_txns_, client_to_txn_, now, ticks, requests, pc, sid, session, status, ret, evicted, crashed,
          query_params, param_name, found, store, txn_writes, last_write, cmd, request, batch, command, matched,
          column_args, column_built>>

\* The three members of sessions_t the methods work on, as one value.
Manager == [free_arenas_ |-> free_arenas_, free_txns_ |-> free_txns_, client_to_txn_ |-> client_to_txn_]

\* ----------------------------------------------------------------- helpers

session_id_is_txn(id) == id.txn_id # 0

PushBack(s, x) == Append(s, x)
Back(s) == s[Len(s)]
PopBack(s) == SubSeq(s, 1, Len(s) - 1)

Erase(map, id) == [k \in (DOMAIN map) \ {id} |-> map[k]]
InsertOrAssign(map, id, rec) == [k \in (DOMAIN map) \cup {id} |-> IF k = id THEN rec ELSE map[k]]

\* Every order in which the unordered_map may iterate over its keys.
IterationOrders(map) ==
    LET n == Cardinality(DOMAIN map)
    IN {o \in [1 .. n -> DOMAIN map] : \A i, j \in 1 .. n : i # j => o[i] # o[j]}

\* Integer division truncating toward zero, as std::chrono::duration_cast does.
TruncDiv(a, b) == IF a >= 0 THEN a \div b ELSE -((-a) \div b)

\* duration_cast<milliseconds>(d) for a duration d in clock ticks.
duration_cast_ms(d) == TruncDiv(d, ClockTicksPerMs)

\* `a < b` for a signed 64-bit a and an unsigned 64-bit b < 2^63: a is
\* converted to unsigned, so a negative a becomes a + 2^64 >= 2^63 > b.
UnsignedLess(a, b) == a >= 0 /\ a < b

\* ------------------------------------------------------------ param_value
\* Strings are sequences of one-character strings.

\* std::nullopt and an engaged optional holding the view `value`. `null` says
\* that the view is the default-constructed std::string_view {}, whose data()
\* is nullptr.
NullOpt == [present |-> FALSE, value |-> <<>>, null |-> FALSE]
Some(value) == [present |-> TRUE, value |-> value, null |-> FALSE]
SomeEmptyView == [present |-> TRUE, value |-> <<>>, null |-> TRUE]

\* The value found before param_value has been called.
NotCalled == [present |-> FALSE, value |-> <<"-">>, null |-> FALSE]

\* s[i .. i + Len(p) - 1] = p
MatchesAt(s, p, i) ==
    /\ i >= 1 /\ i + Len(p) - 1 <= Len(s)
    /\ \A k \in 1 .. Len(p) : s[i + k - 1] = p[k]

\* std::search(first, end, p): the first match at or after `first`, or
\* Len(s) + 1 for end().
StdSearch(s, p, first) ==
    LET hits == {i \in first .. Len(s) : MatchesAt(s, p, i)}
    IN IF hits = {} THEN Len(s) + 1 ELSE CHOOSE i \in hits : \A j \in hits : i <= j

\* std::find(first, end, c)
StdFind(s, c, first) ==
    LET hits == {i \in first .. Len(s) : s[i] = c}
    IN IF hits = {} THEN Len(s) + 1 ELSE CHOOSE i \in hits : \A j \in hits : i <= j

\* The loop of param_value with key_begin at `first`.
RECURSIVE ParamValueFrom(_, _, _)
ParamValueFrom(s, p, first) ==
    LET key_begin == StdSearch(s, p, first)
        is_suffix == key_begin + Len(p) = Len(s) + 1
    IN IF key_begin = Len(s) + 1 THEN NullOpt
       ELSE IF is_suffix THEN SomeEmptyView
       ELSE LET prev_character == s[key_begin - 1]
                next_character == s[key_begin + Len(p)]
            IN IF prev_character \notin {"?", "&", "/"} THEN ParamValueFrom(s, p, key_begin + 1)
               ELSE IF next_character = "&" THEN SomeEmptyView
               ELSE IF next_character = "="
               THEN LET value_begin == key_begin + Len(p) + 1
                        value_end == StdFind(s, "&", value_begin)
                    IN Some(SubSeq(s, value_begin, value_end - 1))
               ELSE ParamValueFrom(s, p, key_begin + 1)

\* The loop of param_value with key_begin at `first`: the position of the
\* occurrence it returns from, or Len(s) + 1 when it returns std::nullopt.
RECURSIVE KeyBeginFrom(_, _, _)
KeyBeginFrom(s, p, first) ==
    LET key_begin == StdSearch(s, p, first)
        is_suffix == key_begin + Len(p) = Len(s) + 1
    IN IF key_begin = Len(s) + 1 \/ is_suffix THEN key_begin
       ELSE IF s[key_begin - 1] \notin {"?", "&", "/"} THEN KeyBeginFrom(s, p, key_begin + 1)
       ELSE IF s[key_begin + Len(p)] \in {"&", "="} THEN key_begin
       ELSE KeyBeginFrom(s, p, key_begin + 1)

\* param_value(query_params, param_name); query_params begins with "?".
param_value(s, p) == ParamValueFrom(s, p, 1)

\* ------------------------------------------------- commands and parameters

\* A command string `verb[?k1=v1&...]`: the text before the first "?" and the
\* text from that "?" on (empty when the command has no "?").
Uri(verb, query) == [verb |-> verb, query |-> query]

\* is_query(uri, name)
is_query(uri, name) == uri.verb = name

\* The names and values of the URI parameters the handlers look at.
kParamTransactionID == <<"t", "x", "n">>
kParamReadPart == <<"p", "a", "r", "t">>
kParamReadPartLengths == <<"l", "e", "n", "g", "t", "h", "s">>
kParamReadPartPresences == <<"p", "r", "e", "s", "e", "n", "c", "e", "s">>
kParamSnapshotID == <<"s", "n", "a", "p">>
kParamCollectionName == <<"c", "o", "l", "_", "n", "a", "m", "e">>
kParamCollectionID == <<"c", "o", "l">>
kParamDropMode == <<"d", "r", "o", "p", "_", "m", "o", "d", "e">>
kParamDropModeValues == <<"v", "a", "l", "u", "e", "s">>
kParamDropModeContents == <<"c", "o", "n", "t", "e", "n", "t", "s">>

\* ustore_collection_main_k, the id of the unnamed collection.
ustore_collection_main_k == 0

HexDigits == {"0", "1", "2", "3", "4", "5", "6", "7", "8", "9", "a", "b", "c", "d", "e", "f"}

HexDigitValue(c) ==
    CASE c = "0" -> 0 [] c = "1" -> 1 [] c = "2" -> 2 [] c = "3" -> 3
      [] c = "4" -> 4 [] c = "5" -> 5 [] c = "6" -> 6 [] c = "7" -> 7
      [] c = "8" -> 8 [] c = "9" -> 9 [] c = "a" -> 10 [] c = "b" -> 11
      [] c = "c" -> 12 [] c = "d" -> 13 [] c = "e" -> 14 [] c = "f" -> 15

\* std::strtoull(str, &end, 16) on a text without sign, blanks or 0x prefix
\* and short enough not to overflow 64 bits: the value of the longest prefix
\* of hexadecimal digits and `end`, the position after that prefix.
RECURSIVE StrToULLFrom(_, _, _)
StrToULLFrom(str, i, result) ==
    IF i <= Len(str) /\ str[i] \in HexDigits
    THEN StrToULLFrom(str, i + 1, result * 16 + HexDigitValue(str[i]))
    ELSE [result |-> result, end |-> i]

StrToULL(str) == StrToULLFrom(str, 1, 0)

\* What a call that faulted yields instead of a number.
Faulted == -1

\* parse_u64_hex(str, default_): the set of its possible results. On the
\* default-constructed view strtoull is handed a null pointer: the call
\* faults, or reads nothing and yields 0.
parse_u64_hex(view, default_) ==
    IF view.null
    THEN {Faulted, 0}
    ELSE LET r == StrToULL(view.value)
         IN IF r.end # Len(view.value) + 1 THEN {default_} ELSE {r.result}

\* parse_txn_id(str)
parse_txn_id(view) == parse_u64_hex(view, 0)

DecDigits == {"0", "1", "2", "3", "4", "5", "6", "7", "8", "9"}

\* std::from_chars(first, last, result) in base 10 on a text without sign:
\* the value of the longest prefix of decimal digits, or `result` as it was
\* when the text does not begin with a digit.
RECURSIVE FromCharsFrom(_, _, _)
FromCharsFrom(str, i, result) ==
    IF i <= Len(str) /\ str[i] \in DecDigits
    THEN FromCharsFrom(str, i + 1, result * 10 + HexDigitValue(str[i]))
    ELSE result

FromChars(str, result) ==
    IF Len(str) >= 1 /\ str[1] \in DecDigits THEN FromCharsFrom(str, 1, 0) ELSE result

\* parse_snap_id(str, default_); the range of a default-constructed view is
\* empty, so nothing is read through its null pointer.
parse_snap_id(view, default_) == FromChars(view.value, default_)

\* The members of session_params_t that name a snapshot or a collection, read
\* from the parameters `query` (empty when the command has no "?").
TargetParams(query) ==
    IF query = <<>>
    THEN [snapshot_id |-> NullOpt, collection_name |-> NullOpt, collection_id |-> NullOpt,
          collection_drop_mode |-> NullOpt]
    ELSE [snapshot_id |-> param_value(query, kParamSnapshotID),
          collection_name |-> param_value(query, kParamCollectionName),
          collection_id |-> param_value(query, kParamCollectionID),
          collection_drop_mode |-> param_value(query, kParamDropMode)]

\* session_params_t with the members the modelled handlers read; `faulted`
\* says that parsing faulted.
SessionParams(session_id, transaction_id, read_part, faulted) ==
    [session_id |-> session_id, transaction_id |-> transaction_id, read_part |-> read_part,
     faulted |-> faulted]

\* session_params(server_call, uri): the set of its possible results, for the
\* peer whose client id is `client`.
session_params(client, uri) ==
    LET id0 == [client_id |-> client, txn_id |-> 0]
        target == TargetParams(uri.query)
    IN IF uri.query = <<>>
       THEN {SessionParams(id0, NullOpt, NullOpt, FALSE) @@ target}
       ELSE LET transaction_id == param_value(uri.query, kParamTransactionID)
                read_part == param_value(uri.query, kParamReadPart)
            IN IF transaction_id.present
               THEN {IF t = Faulted
                     THEN SessionParams(id0, transaction_id, read_part, TRUE) @@ target
                     ELSE SessionParams([id0 EXCEPT !.txn_id = t], transaction_id, read_part, FALSE) @@ target
                     : t \in parse_txn_id(transaction_id)}
               ELSE {SessionParams(id0, transaction_id, read_part, FALSE) @@ target}

\* ------------------------------------------------------------- the engine
\* The storage engine is consumed through its C interface; it is modelled as
\* a store with one write set per transaction handle.

\* The keys and the bytes of the values requests carry.
Keys == {1}
Bytes == {<<>>, <<7>>}

\* One row of a values column: its validity bit and its bytes.
NullValue == [valid |-> FALSE, bytes |-> <<>>]
Value(bytes) == [valid |-> TRUE, bytes |-> bytes]
Values == {NullValue} \cup {Value(b) : b \in Bytes}

\* An entry of the store: a key is missing or present with its bytes.
Missing == [present |-> FALSE, bytes |-> <<>>]
Present(bytes) == [present |-> TRUE, bytes |-> bytes]

\* The entries of a write set: not written, or the entry written.
NotWritten == [written |-> FALSE, entry |-> Missing]
Written(entry) == [written |-> TRUE, entry |-> entry]

EmptyStore == [k \in Keys |-> Missing]
NoWrites == [k \in Keys |-> NotWritten]

\* The engine as one value.
Engine == [store |-> store, txn_writes |-> txn_writes]

\* The entry a written value leaves: a null value deletes the key.
EntryOf(val) == IF val.valid THEN Present(val.bytes) ELSE Missing

\* ustore_write of one key, under the transaction `txn` or none (nullptr).
ustore_write(e, txn, key, val) ==
    IF txn \in DOMAIN e.txn_writes
    THEN [e EXCEPT !.txn_writes[txn][key] = Written(EntryOf(val))]
    ELSE [e EXCEPT !.store[key] = EntryOf(val)]

\* ustore_read of one key: the entry the reader sees.
ustore_read(e, txn, key) ==
    IF txn \in DOMAIN e.txn_writes /\ e.txn_writes[txn][key].written
    THEN e.txn_writes[txn][key].entry
    ELSE e.store[key]

\* ustore_transaction_init on the handle: a fresh transaction.
ustore_transaction_init(e, txn) ==
    IF txn \in DOMAIN e.txn_writes THEN [e EXCEPT !.txn_writes[txn] = NoWrites] ELSE e

\* ustore_transaction_commit: the write set becomes visible to everyone.
ustore_transaction_commit(e, txn) ==
    IF txn \in DOMAIN e.txn_writes
    THEN [e EXCEPT !.store = [k \in Keys |-> IF e.txn_writes[txn][k].written
                                              THEN e.txn_writes[txn][k].entry ELSE e.store[k]],
                   !.txn_writes[txn] = NoWrites]
    ELSE e

\* ustore_length_missing_k, the length reported for a missing key: the
\* all-ones 32-bit value, written here as the same bits read as a signed number.
ustore_length_missing_k == -1

\* What ustore_read returns for an entry: presence bit, length and bytes.
Found(entry) ==
    [presence |-> entry.present,
     length |-> IF entry.present THEN Len(entry.bytes) ELSE ustore_length_missing_k,
     bytes |-> entry.bytes]

\* --------------------------------------------------- sessions_t operations
\* Each operation maps the manager value m (and the clock reading t) to the
\* set of its possible results [m, out, err]: the manager afterwards, the value
\* returned and the error logged ("ok" when none).

Result(m, out, err) == [m |-> m, out |-> out, err |-> err]

\* std::min_element over the map as iterated in `order`, with pop's comparator.
RECURSIVE MinElementFrom(_, _, _, _)
MinElementFrom(map, order, i, smallest) ==
    IF i > Len(order)
    THEN smallest
    ELSE LET left == map[order[i]]
             right == map[smallest]
             less == left.last_access < right.last_access /\ ~left.executing
         IN MinElementFrom(map, order, i + 1, IF less THEN order[i] ELSE smallest)

MinElement(map, order) == MinElementFrom(map, order, 2, order[1])

\* pop's test without the test of the executing flag.
PopRefuses_age_only(rec, t) ==
    LET age == duration_cast_ms(rec.last_access - t)
    IN UnsignedLess(age, milliseconds_timeout)

\* pop's test with the age compared as a signed number.
PopRefuses_signed(rec, t) ==
    duration_cast_ms(rec.last_access - t) < milliseconds_timeout \/ rec.executing

\* pop's test that refuses the victim: its age, cast to milliseconds, compared
\* with the unsigned timeout, or the victim executing.
PopRefuses(rec, t) ==
    LET age == duration_cast_ms(rec.last_access - t)
    IN UnsignedLess(age, milliseconds_timeout) \/ rec.executing

\* sessions_t::pop with the map iterated in `order`.
PopIn(m, order, t) ==
    LET it == MinElement(m.client_to_txn_, order)
        rec == m.client_to_txn_[it]
    IN IF PopRefuses(rec, t)
       THEN Result(m, NullRunning, "exhausted")
       ELSE Result([m EXCEPT !.client_to_txn_ = Erase(m.client_to_txn_, it)],
                   [rec EXCEPT !.executing = FALSE], "ok")

\* sessions_t::pop. On an empty map min_element returns end() and pop
\* dereferences it: the read either faults or yields a record that the test
\* refuses.
pop(m, t) ==
    IF DOMAIN m.client_to_txn_ = {}
    THEN {Result(m, NullRunning, "crash"), Result(m, NullRunning, "exhausted")}
    ELSE {PopIn(m, order, t) : order \in IterationOrders(m.client_to_txn_)}

\* submit without the reset of the executing flag.
submit_keeps_executing(m, session_id, running_txn) ==
    [m EXCEPT !.client_to_txn_ = InsertOrAssign(m.client_to_txn_, session_id, running_txn)]

\* sessions_t::submit
submit(m, session_id, running_txn) ==
    [m EXCEPT !.client_to_txn_ =
        InsertOrAssign(m.client_to_txn_, session_id, [running_txn EXCEPT !.executing = FALSE])]

\* continue_txn with the session looked up by its transaction id alone.
continue_txn_any_client(m, session_id, t) ==
    LET same == {k \in DOMAIN m.client_to_txn_ : k.txn_id = session_id.txn_id}
    IN IF same = {}
       THEN {Result(m, NullRunning, "not_found")}
       ELSE {IF m.client_to_txn_[k].executing
             THEN Result(m, NullRunning, "conflict")
             ELSE LET running == [m.client_to_txn_[k] EXCEPT !.executing = TRUE, !.last_access = t]
                  IN Result([m EXCEPT !.client_to_txn_[k] = running], running, "ok")
             : k \in same}

\* continue_txn that stamps the session it refuses.
continue_txn_stamping(m, session_id, t) ==
    IF session_id \notin DOMAIN m.client_to_txn_
    THEN {Result(m, NullRunning, "not_found")}
    ELSE IF m.client_to_txn_[session_id].executing
    THEN {Result([m EXCEPT !.client_to_txn_[session_id].last_access = t], NullRunning, "conflict")}
    ELSE LET running == [m.client_to_txn_[session_id] EXCEPT !.executing = TRUE, !.last_access = t]
         IN {Result([m EXCEPT !.client_to_txn_[session_id] = running], running, "ok")}

\* sessions_t::continue_txn
continue_txn(m, session_id, t) ==
    IF session_id \notin DOMAIN m.client_to_txn_
    THEN {Result(m, NullRunning, "not_found")}
    ELSE IF m.client_to_txn_[session_id].executing
    THEN {Result(m, NullRunning, "conflict")}
    ELSE LET running == [m.client_to_txn_[session_id] EXCEPT !.executing = TRUE, !.last_access = t]
         IN {Result([m EXCEPT !.client_to_txn_[session_id] = running], running, "ok")}

\* sessions_t::request_txn
request_txn(m, session_id, t) ==
    IF session_id \in DOMAIN m.client_to_txn_
    THEN {Result(m, NullRunning, "duplicate")}
    ELSE IF Len(m.free_txns_) = 0 \/ Len(m.free_arenas_) = 0
    THEN {IF r.err # "ok"
          THEN Result(r.m, NullRunning, r.err)
          ELSE Result(r.m, [r.out EXCEPT !.executing = TRUE, !.last_access = t], "ok")
          : r \in pop(m, t)}
    ELSE LET running == [txn |-> Back(m.free_txns_), arena |-> Back(m.free_arenas_),
                         last_access |-> t, executing |-> TRUE]
         IN {Result([m EXCEPT !.free_arenas_ = PopBack(@), !.free_txns_ = PopBack(@)], running, "ok")}

\* sessions_t::hold_txn
hold_txn(m, session_id, running_txn) == submit(m, session_id, running_txn)

\* sessions_t::release_txn(session_id_t)
release_txn(m, session_id) ==
    IF session_id \notin DOMAIN m.client_to_txn_
    THEN m
    ELSE [m EXCEPT !.free_arenas_ = PushBack(@, m.client_to_txn_[session_id].arena),
                   !.free_txns_ = PushBack(@, m.client_to_txn_[session_id].txn),
                   !.client_to_txn_ = Erase(@, session_id)]

\* sessions_t::request_arena; out.arena is the arena returned.
request_arena(m, t) ==
    IF Len(m.free_arenas_) = 0
    THEN {IF r.err # "ok"
          THEN Result(r.m, NullRunning, r.err)
          ELSE Result([r.m EXCEPT !.free_txns_ = PushBack(@, r.out.txn)],
                      [NullRunning EXCEPT !.arena = r.out.arena], "ok")
          : r \in pop(m, t)}
    ELSE {Result([m EXCEPT !.free_arenas_ = PopBack(@)],
                 [NullRunning EXCEPT !.arena = Back(m.free_arenas_)], "ok")}

\* release_arena without the push.
release_arena_dropped(m, arena) == m

\* sessions_t::release_arena
release_arena(m, arena) == [m EXCEPT !.free_arenas_ = PushBack(@, arena)]

\* sessions_t::lock; out carries the txn and arena of the session_lock_t.
lock(m, id, t) ==
    IF session_id_is_txn(id)
    THEN {Result(r.m, [NullRunning EXCEPT !.txn = r.out.txn, !.arena = r.out.arena], r.err)
          : r \in continue_txn(m, id, t)}
    ELSE request_arena(m, t)

\* session_lock_t::is_txn
session_lock_is_txn(lk) == lk.txn # NullHandle

\* session_lock_t::~session_lock_t
session_lock_dtor(m, session_id, lk, t) ==
    IF session_lock_is_txn(lk)
    THEN hold_txn(m, session_id, [txn |-> lk.txn, arena |-> lk.arena, last_access |-> t, executing |-> TRUE])
    ELSE release_arena(m, lk.arena)


\* ---------------------------------------------------------------- handlers

\* The batch a data response carries, one column with one row: the row's
\* validity bit, its length and its bytes, and for a presences column the
\* bits of the packed bitmap.
NoResponse == [column |-> "none", valid |-> FALSE, length |-> 0, bytes |-> <<>>, bits |-> <<>>]

\* The command a handler serves: the transport's verb category, the command
\* string, the part a read asks for, the key and value of its input batch,
\* the number of engine calls made for it so far, the response batch built,
\* the arena whose memory the batch handed to the transport aliases, and for
\* an action on a collection or a snapshot the id and the drop mode handed to
\* the engine.
NoCmd ==
    [cat |-> "none", uri |-> Uri("none", <<>>), part |-> "content", key |-> 0, val |-> NullValue,
     calls |-> 0, response |-> NoResponse, aliased |-> NullHandle, id |-> 0, mode |-> "none"]

\* Any data command, when nothing but its session id matters.
DataCmd == [NoCmd EXCEPT !.cat = "data", !.uri = Uri("data", <<>>)]

\* The code of the ar::Status a handler returns: OK, Invalid for a missing
\* argument, NotImplemented for an unknown action, and ExecutionError built
\* from the message whenever the status_t holds an error.
ar_status_code(err) ==
    CASE err = "ok" -> "OK"
      [] err = "invalid" -> "Invalid"
      [] err = "not_implemented" -> "NotImplemented"
      [] OTHER -> "ExecutionError"

\* No write stands as the last one; `by` is the handler that made the write
\* until it has returned.
NoWrite == [sid |-> NoSession, key |-> 0, val |-> NullValue, by |-> 0]

\* What a handler returned: the verb, the session id of the request, the status,
\* the handles the handler held when it returned, the code of the ar::Status
\* and the command served.
NoReturn ==
    [verb |-> "none", sid |-> NoSession, err |-> "none", txn |-> NullHandle, arena |-> NullHandle,
     code |-> "none", cmd |-> NoCmd]
Returned(verb, id, err, held) ==
    [verb |-> verb, sid |-> id, err |-> err, txn |-> held.txn, arena |-> held.arena,
     code |-> ar_status_code(err), cmd |-> NoCmd]

\* The request a response is marshalled for: no request, and no batch built.
NoRequest == [verb |-> "none", read_part |-> NullOpt, tasks_count |-> 0, found_counts |-> <<>>]
NoBatch == [status |-> "none", length |-> 0, n_children |-> 0, children |-> <<>>]

\* No column builder has been called, and no column is filled in.
NoColumnArgs == [fn |-> "none"]
NoColumn == [filled |-> FALSE]

\* is_query has not been called.
NoneMatched == [called |-> FALSE, name |-> <<>>, result |-> FALSE]

\* The transport delivers one more request.
Deliver ==
    /\ requests < MaxRequests
    /\ requests' = requests + 1

Init ==
    /\ free_arenas_ = [i \in 1 .. Capacity |-> i]
    /\ free_txns_ = [i \in 1 .. Capacity |-> i]
    /\ client_to_txn_ = [k \in {} |-> NullRunning]
    /\ now = 0
    /\ ticks = 0
    /\ requests = 0
    /\ pc = [h \in Handlers |-> "idle"]
    /\ sid = [h \in Handlers |-> NoSession]
    /\ session = [h \in Handlers |-> NullRunning]
    /\ status = [h \in Handlers |-> "ok"]
    /\ ret = NoReturn
    /\ evicted = NoSession
    /\ crashed = FALSE
    /\ query_params = <<>>
    /\ param_name = <<>>
    /\ found = NotCalled
    /\ store = EmptyStore
    /\ txn_writes = [t \in Slots |-> NoWrites]
    /\ last_write = NoWrite
    /\ cmd = [h \in Handlers |-> NoCmd]
    /\ request = NoRequest
    /\ batch = NoBatch
    /\ command = <<>>
    /\ matched = NoneMatched
    /\ column_args = NoColumnArgs
    /\ column_built = NoColumn

\* The session that is in the map of m and no longer in the map of m2.
Victim(m, m2) ==
    LET gone == (DOMAIN m.client_to_txn_) \ (DOMAIN m2.client_to_txn_)
    IN IF gone = {} THEN NoSession ELSE CHOOSE v \in gone : TRUE

\* The manager after a step; the free stacks stay within the model's bound.
SetManager(m) ==
    /\ Len(m.free_arenas_) <= Capacity + MaxSurplus
    /\ Len(m.free_txns_) <= Capacity + MaxSurplus
    /\ free_arenas_' = m.free_arenas_
    /\ free_txns_' = m.free_txns_
    /\ client_to_txn_' = m.client_to_txn_

\* The engine after a call that is no write.
SetEngine(e) ==
    /\ store' = e.store
    /\ txn_writes' = e.txn_writes
    /\ last_write' = NoWrite

\* The engine after the write of val under key that handler h made for the
\* session id.
SetWritten(e, h, id, key, val) ==
    /\ store' = e.store
    /\ txn_writes' = e.txn_writes
    /\ last_write' = [sid |-> id, key |-> key, val |-> val, by |-> h]

\* Handler h enters the code after its acquiring call, serving the command c.
EnterWith(h, at, id, running, err, c) ==
    /\ pc' = [pc EXCEPT ![h] = at]
    /\ sid' = [sid EXCEPT ![h] = id]
    /\ session' = [session EXCEPT ![h] = running]
    /\ status' = [status EXCEPT ![h] = err]
    /\ cmd' = [cmd EXCEPT ![h] = c]
    /\ ret' = NoReturn

\* Handler h enters the code after its acquiring call.
Enter(h, at, id, running, err) == EnterWith(h, at, id, running, err, cmd[h])

\* Handler h returns to the transport.
Return(h, verb, id, err, held) ==
    /\ pc' = [pc EXCEPT ![h] = "idle"]
    /\ sid' = [sid EXCEPT ![h] = NoSession]
    /\ session' = [session EXCEPT ![h] = NullRunning]
    /\ status' = [status EXCEPT ![h] = "ok"]
    /\ cmd' = [cmd EXCEPT ![h] = NoCmd]
    /\ ret' = [Returned(verb, id, err, held) EXCEPT !.cmd = cmd[h]]

\* The dereference of end() faulted: the process is gone.
Crash ==
    /\ crashed' = TRUE
    /\ UNCHANGED <<free_arenas_, free_txns_, client_to_txn_, now, ticks, pc, sid, session, status, cmd, ret, evicted>>

\* DoAction, txn_begin: request_txn.
TxnBegin(h, id) ==
    /\ UNCHANGED paramVars
    /\ UNCHANGED shapeVars
    /\ UNCHANGED queryVars
    /\ UNCHANGED engineVars
    /\ ~crashed /\ pc[h] = "idle"
    /\ Deliver
    /\ \E r \in request_txn(Manager, id, now) :
          IF r.err = "crash" THEN Crash
          ELSE /\ SetManager(r.m)
               /\ evicted' = Victim(Manager, r.m)
               /\ IF r.err = "ok"
                  THEN Enter(h, "txn_begin", id, r.out, "ok")
                  ELSE Return(h, "txn_begin", id, r.err, NullRunning)
               /\ UNCHANGED <<now, ticks, crashed>>

\* DoAction, txn_begin: ustore_transaction_init, then hold_txn, or on an
\* engine error release_txn(session_id).
TxnBeginInit(h, engine_ok) ==
    /\ UNCHANGED paramVars
    /\ UNCHANGED shapeVars
    /\ UNCHANGED queryVars
    /\ ~crashed /\ pc[h] = "txn_begin"
    /\ IF engine_ok
       THEN /\ SetEngine(ustore_transaction_init(Engine, session[h].txn))
            /\ SetManager(hold_txn(Manager, sid[h], session[h]))
       ELSE /\ UNCHANGED engineVars
            /\ SetManager(release_txn(Manager, sid[h]))
    /\ Return(h, "txn_begin", sid[h], IF engine_ok THEN "ok" ELSE "engine", session[h])
    /\ evicted' = NoSession
    /\ UNCHANGED <<now, ticks, requests, crashed>>

\* DoAction, txn_commit: continue_txn.
TxnCommit(h, id) ==
    /\ UNCHANGED paramVars
    /\ UNCHANGED shapeVars
    /\ UNCHANGED queryVars
    /\ UNCHANGED engineVars
    /\ ~crashed /\ pc[h] = "idle"
    /\ Deliver
    /\ \E r \in continue_txn(Manager, id, now) :
          /\ SetManager(r.m)
          /\ Enter(h, IF r.err = "ok" THEN "txn_commit" ELSE "txn_commit_failed", id, r.out, r.err)
    /\ evicted' = NoSession
    /\ UNCHANGED <<now, ticks, crashed>>

\* DoAction, txn_commit: the `if (!status)` branch after continue_txn.
TxnCommitFailed(h) ==
    /\ UNCHANGED paramVars
    /\ UNCHANGED shapeVars
    /\ UNCHANGED queryVars
    /\ UNCHANGED engineVars
    /\ ~crashed /\ pc[h] = "txn_commit_failed"
    /\ SetManager(release_txn(Manager, sid[h]))
    /\ Return(h, "txn_commit", sid[h], status[h], session[h])
    /\ evicted' = NoSession
    /\ UNCHANGED <<now, ticks, requests, crashed>>

\* DoAction, txn_commit: ustore_transaction_commit, then release_txn on
\* success and on failure alike.
TxnCommitFinish(h, engine_ok) ==
    /\ UNCHANGED paramVars
    /\ UNCHANGED shapeVars
    /\ UNCHANGED queryVars
    /\ ~crashed /\ pc[h] = "txn_commit"
    /\ IF engine_ok
       THEN SetEngine(ustore_transaction_commit(Engine, session[h].txn))
       ELSE UNCHANGED engineVars
    /\ SetManager(release_txn(Manager, sid[h]))
    /\ Return(h, "txn_commit", sid[h], IF engine_ok THEN "ok" ELSE "engine", session[h])
    /\ evicted' = NoSession
    /\ UNCHANGED <<now, ticks, requests, crashed>>

\* DoExchange / DoPut / DoGet: sessions_.lock(params.session_id, ...) for the
\* command c.
LockFor(h, id, c) ==
    /\ UNCHANGED paramVars
    /\ UNCHANGED shapeVars
    /\ UNCHANGED queryVars
    /\ UNCHANGED engineVars
    /\ ~crashed /\ pc[h] = "idle"
    /\ Deliver
    /\ \E r \in lock(Manager, id, now) :
          IF r.err = "crash" THEN Crash
          ELSE /\ SetManager(r.m)
               /\ evicted' = Victim(Manager, r.m)
               /\ EnterWith(h, IF r.err = "ok" THEN "locked" ELSE "lock_failed", id, r.out, r.err, c)
               /\ UNCHANGED <<now, ticks, crashed>>

\* DoExchange / DoPut / DoGet: sessions_.lock(params.session_id, ...).
Lock(h, id) == LockFor(h, id, DataCmd)

\* DoExchange / DoPut / DoGet: `if (!status) return` right after lock(); the
\* session_lock_t is destroyed on the way out.
LockFailed(h) ==
    /\ UNCHANGED paramVars
    /\ UNCHANGED shapeVars
    /\ UNCHANGED queryVars
    /\ UNCHANGED engineVars
    /\ ~crashed /\ pc[h] = "lock_failed"
    /\ SetManager(session_lock_dtor(Manager, sid[h], session[h], now))
    /\ Return(h, "data", sid[h], status[h], session[h])
    /\ evicted' = NoSession
    /\ UNCHANGED <<now, ticks, requests, crashed>>

\* DoExchange / DoPut / DoGet: the engine call and the response, on whichever
\* return path; the session_lock_t is destroyed on the way out.
Unlock(h, engine_ok) ==
    /\ UNCHANGED paramVars
    /\ UNCHANGED shapeVars
    /\ UNCHANGED queryVars
    /\ UNCHANGED engineVars
    /\ ~crashed /\ pc[h] = "locked"
    /\ SetManager(session_lock_dtor(Manager, sid[h], session[h], now))
    /\ Return(h, "data", sid[h], IF engine_ok THEN "ok" ELSE "engine", session[h])
    /\ evicted' = NoSession
    /\ UNCHANGED <<now, ticks, requests, crashed>>

\* Time passes: by one clock tick, by one millisecond, or by the idle timeout.
TickSteps == {1, ClockTicksPerMs, milliseconds_timeout * ClockTicksPerMs}

Tick(d) ==
    /\ UNCHANGED paramVars
    /\ UNCHANGED shapeVars
    /\ UNCHANGED queryVars
    /\ ~crashed /\ ticks < MaxTicks
    /\ now' = now + d
    /\ ticks' = ticks + 1
    /\ ret' = NoReturn
    /\ evicted' = NoSession
    /\ UNCHANGED <<free_arenas_, free_txns_, client_to_txn_, requests, pc, sid, session, status, crashed>>
    /\ UNCHANGED engineVars
    /\ UNCHANGED cmd

Next ==
    \/ \E h \in Handlers, id \in SessionIds : TxnBegin(h, id)
    \/ \E h \in Handlers, engine_ok \in BOOLEAN : TxnBeginInit(h, engine_ok)
    \/ \E h \in Handlers, id \in SessionIds : TxnCommit(h, id)
    \/ \E h \in Handlers : TxnCommitFailed(h)
    \/ \E h \in Handlers, engine_ok \in BOOLEAN : TxnCommitFinish(h, engine_ok)
    \/ \E h \in Handlers, id \in SessionIds : Lock(h, id)
    \/ \E h \in Handlers : LockFailed(h)
    \/ \E h \in Handlers, engine_ok \in BOOLEAN : Unlock(h, engine_ok)
    \/ \E d \in TickSteps : Tick(d)

Spec == Init /\ [][Next]_vars

\* ------------------------------------------- the handlers, command by command

\* The values std::rand() may return.
RandValues == {0, 1}

\* `optional == text`: engaged and equal.
OptEquals(opt, text) == opt.present /\ opt.value = text

\* request_only_presences / request_only_lengths / request_content of a read.
read_part(params) ==
    IF OptEquals(params.read_part, kParamReadPartPresences) THEN "presences"
    ELSE IF OptEquals(params.read_part, kParamReadPartLengths) THEN "lengths"
    ELSE "content"

\* The command of a request as the handler starts on it.
Command(cat, uri, params, key, val) ==
    [NoCmd EXCEPT !.cat = cat, !.uri = uri, !.part = read_part(params), !.key = key, !.val = val]

\* Parsing the command faulted: the process is gone.
Fault(h) ==
    /\ UNCHANGED paramVars
    /\ UNCHANGED shapeVars
    /\ UNCHANGED queryVars
    /\ UNCHANGED engineVars
    /\ ~crashed /\ pc[h] = "idle"
    /\ Deliver
    /\ Crash

\* The handler returns before it acquired anything.
ReturnAtOnce(h, verb, c, id, err) ==
    /\ UNCHANGED paramVars
    /\ UNCHANGED shapeVars
    /\ UNCHANGED queryVars
    /\ UNCHANGED engineVars
    /\ ~crashed /\ pc[h] = "idle"
    /\ Deliver
    /\ ret' = [Returned(verb, id, err, NullRunning) EXCEPT !.cmd = c]
    /\ evicted' = NoSession
    /\ UNCHANGED <<free_arenas_, free_txns_, client_to_txn_, now, ticks, pc, sid, session, status, cmd, crashed>>

\* The command of an action after its one engine call, made for the id `id`
\* with the drop mode `mode`.
EngineCalled(c, id, mode) == [c EXCEPT !.calls = 1, !.id = id, !.mode = mode]

\* The mapping of drop_mode with the first two modes exchanged.
collection_drop_mode_swapped(params) ==
    IF OptEquals(params.collection_drop_mode, kParamDropModeValues) THEN "ustore_drop_keys_vals_k"
    ELSE IF OptEquals(params.collection_drop_mode, kParamDropModeContents) THEN "ustore_drop_vals_k"
    ELSE "ustore_drop_keys_vals_handle_k"

\* DoAction, collection_drop: the ustore_drop_mode_t chosen from drop_mode.
collection_drop_mode(params) ==
    IF OptEquals(params.collection_drop_mode, kParamDropModeValues) THEN "ustore_drop_vals_k"
    ELSE IF OptEquals(params.collection_drop_mode, kParamDropModeContents) THEN "ustore_drop_keys_vals_k"
    ELSE "ustore_drop_keys_vals_handle_k"

\* What the write of the terminating 0 after the collection name may do: the
\* name of a default-constructed view lies at the null pointer, where the
\* write faults or goes unnoticed.
NameTermination(view) == IF view.null THEN {"fault", "written"} ELSE {"written"}

\* UStoreService::DoAction. The actions on collections and snapshots make
\* their one engine call, which succeeds or fails, and return.
DoAction(h, client, uri) ==
    /\ ~crashed /\ pc[h] = "idle"
    /\ \E params \in session_params(client, uri) :
        LET c == Command("DoAction", uri, params, 0, NullValue)
            id == params.session_id
        IN
        IF params.faulted THEN Fault(h)
        ELSE IF is_query(uri, "collection_open")
        THEN IF ~params.collection_name.present
             THEN ReturnAtOnce(h, "collection_open", c, id, "invalid")
             ELSE \E end \in NameTermination(params.collection_name), engine_ok \in BOOLEAN :
                     IF end = "fault" THEN Fault(h)
                     ELSE ReturnAtOnce(h, "collection_open", EngineCalled(c, 0, "none"), id,
                                       IF engine_ok THEN "ok" ELSE "engine")
        ELSE IF is_query(uri, "collection_drop")
        THEN IF ~params.collection_id.present
             THEN ReturnAtOnce(h, "collection_drop", c, id, "invalid")
             ELSE \E c_collection_id \in parse_u64_hex(params.collection_id, ustore_collection_main_k),
                     engine_ok \in BOOLEAN :
                     IF c_collection_id = Faulted THEN Fault(h)
                     ELSE ReturnAtOnce(h, "collection_drop",
                                       EngineCalled(c, c_collection_id, collection_drop_mode(params)), id,
                                       IF engine_ok THEN "ok" ELSE "engine")
        ELSE IF is_query(uri, "snapshot_open")
        THEN IF params.snapshot_id.present
             THEN ReturnAtOnce(h, "snapshot_open", c, id, "invalid")
             ELSE \E engine_ok \in BOOLEAN :
                     ReturnAtOnce(h, "snapshot_open", EngineCalled(c, 0, "none"), id,
                                  IF engine_ok THEN "ok" ELSE "engine")
        ELSE IF is_query(uri, "snapshot_drop")
        THEN IF ~params.snapshot_id.present
             THEN ReturnAtOnce(h, "snapshot_drop", c, id, "invalid")
             ELSE \E engine_ok \in BOOLEAN :
                     ReturnAtOnce(h, "snapshot_drop",
                                  EngineCalled(c, parse_snap_id(params.snapshot_id, 0), "none"), id,
                                  IF engine_ok THEN "ok" ELSE "engine")
        ELSE IF is_query(uri, "txn_begin")
        THEN \E sid0 \in (IF params.transaction_id.present
                          THEN {params.session_id}
                          ELSE {[params.session_id EXCEPT !.txn_id = r] : r \in RandValues}) :
                TxnBegin(h, sid0)
        ELSE IF is_query(uri, "txn_commit")
        THEN IF ~params.transaction_id.present
             THEN ReturnAtOnce(h, "txn_commit", c, id, "invalid")
             ELSE TxnCommit(h, params.session_id)
        ELSE ReturnAtOnce(h, "unknown", c, id, "not_implemented")

\* UStoreService::DoPut for the command write and any command that is no
\* put, with an input batch of one key and one value.
DoPut(h, client, uri) ==
    /\ ~crashed /\ pc[h] = "idle"
    /\ \E params \in session_params(client, uri) :
        IF params.faulted THEN Fault(h)
        ELSE \E key \in Keys, val \in Values :
            IF is_query(uri, "write")
            THEN LockFor(h, params.session_id, Command("DoPut", uri, params, key, val))
            ELSE ReturnAtOnce(h, "unknown", Command("DoPut", uri, params, key, val), params.session_id, "ok")

\* UStoreService::DoExchange up to sessions_.lock, which comes before the
\* command is looked at; the input batch holds one key.
DoExchange(h, client, uri) ==
    /\ ~crashed /\ pc[h] = "idle"
    /\ \E params \in session_params(client, uri) :
        IF params.faulted THEN Fault(h)
        ELSE \E key \in Keys :
            LockFor(h, params.session_id, Command("DoExchange", uri, params, key, NullValue))

\* UStoreService::DoGet for the command list_cols and any command that is no
\* get.
DoGet(h, client, uri) ==
    /\ ~crashed /\ pc[h] = "idle"
    /\ \E params \in session_params(client, uri) :
        IF params.faulted THEN Fault(h)
        ELSE IF is_query(uri, "list_cols")
        THEN LockFor(h, params.session_id, Command("DoGet", uri, params, 0, NullValue))
        ELSE ReturnAtOnce(h, "unknown", Command("DoGet", uri, params, 0, NullValue), params.session_id, "ok")

\* write.transaction = session.txn and read.transaction = session.txn
write_transaction(lk) == lk.txn
read_transaction_none(lk) == NullHandle
read_transaction(lk) == lk.txn

\* write.presences, write.offsets, write.lengths and write.values: the row of
\* the input values column as it is.
write_value_all_valid(val) == [val EXCEPT !.valid = TRUE]
write_value(val) == val

\* The batch DoExchange builds from what ustore_read found, by part: the
\* values and the lengths columns take found_presences as their validity
\* bitmap, the presences column has none and holds the bitmap as its data.
ReadResponse(part, f) ==
    IF part = "presences"
    THEN [column |-> "presences", valid |-> TRUE, length |-> 0, bytes |-> <<>>, bits |-> <<f.presence>>]
    ELSE IF part = "lengths"
    THEN [column |-> "lengths", valid |-> f.presence, length |-> f.length, bytes |-> <<>>, bits |-> <<>>]
    ELSE [column |-> "vals", valid |-> f.presence, length |-> Len(f.bytes), bytes |-> f.bytes, bits |-> <<>>]

\* The batch DoGet builds from ustore_collection_list.
ListResponse == [column |-> "cols", valid |-> TRUE, length |-> 0, bytes |-> <<>>, bits |-> <<>>]

\* Handler h goes on to its response with the status err.
Proceed(h, err, c) ==
    /\ pc' = [pc EXCEPT ![h] = "called"]
    /\ status' = [status EXCEPT ![h] = err]
    /\ cmd' = [cmd EXCEPT ![h] = c]
    /\ ret' = NoReturn
    /\ evicted' = NoSession
    /\ UNCHANGED <<free_arenas_, free_txns_, client_to_txn_, now, ticks, requests, sid, session, crashed>>

\* What importing the output batch may do when no branch has filled it in:
\* fault, fail, or import whatever the structures held.
ImportOfUnsetBatch == {"fault", "invalid", "ok"}

\* DoPut / DoExchange / DoGet after a successful lock: the engine call of
\* the command and the batch built from its output. A DoExchange command
\* that is none of its verbs makes no call and imports the output batch unset.
Call(h, engine_ok) ==
    /\ UNCHANGED paramVars
    /\ UNCHANGED shapeVars
    /\ UNCHANGED queryVars
    /\ ~crashed /\ pc[h] = "locked"
    /\ LET c == cmd[h]
           lk == session[h]
           err == IF engine_ok THEN "ok" ELSE "engine"
       IN IF is_query(c.uri, "write")
          THEN /\ IF engine_ok
                  THEN SetWritten(ustore_write(Engine, write_transaction(lk), c.key, write_value(c.val)),
                                  h, sid[h], c.key, c.val)
                  ELSE UNCHANGED engineVars
               /\ Proceed(h, err, [c EXCEPT !.calls = @ + 1])
          ELSE IF is_query(c.uri, "read")
          THEN /\ UNCHANGED engineVars
               /\ Proceed(h, err, [c EXCEPT !.calls = @ + 1,
                                            !.response = IF engine_ok
                                                         THEN ReadResponse(c.part, Found(ustore_read(Engine, read_transaction(lk), c.key)))
                                                         ELSE NoResponse])
          ELSE IF is_query(c.uri, "list_cols")
          THEN /\ UNCHANGED engineVars
               /\ Proceed(h, err, [c EXCEPT !.calls = @ + 1,
                                            !.response = IF engine_ok THEN ListResponse ELSE NoResponse])
          ELSE /\ engine_ok
               /\ UNCHANGED engineVars
               /\ \E outcome \in ImportOfUnsetBatch :
                     IF outcome = "fault"
                     THEN Crash /\ UNCHANGED requests
                     ELSE Proceed(h, outcome, c)

\* DoPut / DoExchange / DoGet: the return after the call. DoExchange has
\* written its batch to the transport by now; DoGet hands its batch to the
\* transport as a stream. The session_lock_t is destroyed on the way out.
Finish(h) ==
    /\ UNCHANGED paramVars
    /\ UNCHANGED shapeVars
    /\ UNCHANGED queryVars
    /\ UNCHANGED <<store, txn_writes>>
    /\ last_write' = IF last_write.by = h THEN [last_write EXCEPT !.by = 0] ELSE last_write
    /\ ~crashed /\ pc[h] = "called"
    /\ SetManager(session_lock_dtor(Manager, sid[h], session[h], now))
    /\ IF cmd[h].cat = "DoGet" /\ status[h] = "ok"
       THEN /\ pc' = [pc EXCEPT ![h] = "streaming"]
            /\ sid' = [sid EXCEPT ![h] = NoSession]
            /\ session' = [session EXCEPT ![h] = NullRunning]
            /\ status' = [status EXCEPT ![h] = "ok"]
            /\ cmd' = [cmd EXCEPT ![h].aliased = session[h].arena]
            /\ ret' = [Returned("data", sid[h], "ok", session[h]) EXCEPT !.cmd = cmd[h]]
       ELSE Return(h, "data", sid[h], status[h], session[h])
    /\ evicted' = NoSession
    /\ UNCHANGED <<now, ticks, requests, crashed>>

\* The transport has written the stream DoGet handed to it.
StreamDone(h) ==
    /\ UNCHANGED paramVars
    /\ UNCHANGED shapeVars
    /\ UNCHANGED queryVars
    /\ UNCHANGED engineVars
    /\ ~crashed /\ pc[h] = "streaming"
    /\ pc' = [pc EXCEPT ![h] = "idle"]
    /\ cmd' = [cmd EXCEPT ![h] = NoCmd]
    /\ ret' = NoReturn
    /\ evicted' = NoSession
    /\ UNCHANGED <<free_arenas_, free_txns_, client_to_txn_, now, ticks, requests, sid, session, status, crashed>>

\* The command strings the transport delivers: each verb with the txn
\* parameter absent, numeric or not a number (a write also with the bare
\* parameter), a read also with a part.
TxnParam(text) == <<"?">> \o kParamTransactionID \o <<"=">> \o text
BareTxnParam == <<"?">> \o kParamTransactionID
PartParam(part) == <<"?">> \o kParamReadPart \o <<"=">> \o part

ActionUris ==
    {Uri("txn_begin", q) : q \in {<<>>, TxnParam(<<"0">>), TxnParam(<<"1">>), TxnParam(<<"z">>)}}
    \cup {Uri("txn_commit", q) : q \in {<<>>, TxnParam(<<"0">>), TxnParam(<<"1">>)}}
    \cup {Uri("bogus", <<>>)}
PutUris ==
    {Uri("write", q) : q \in {<<>>, TxnParam(<<"0">>), TxnParam(<<"1">>), TxnParam(<<"z">>), BareTxnParam}}
    \cup {Uri("bogus", <<>>)}
ExchangeUris ==
    {Uri("read", q) : q \in {<<>>, TxnParam(<<"0">>), TxnParam(<<"1">>), TxnParam(<<"z">>),
                             PartParam(kParamReadPartLengths), PartParam(kParamReadPartPresences)}}
    \cup {Uri("bogus", q) : q \in {<<>>, TxnParam(<<"1">>)}}
GetUris ==
    {Uri("list_cols", q) : q \in {<<>>, TxnParam(<<"1">>)}}
    \cup {Uri("bogus", <<>>)}

\* The transport delivers at most MaxServed commands.
Served == requests < MaxServed

NextServe ==
    \/ \E h \in Handlers, client \in ClientIds, uri \in ActionUris : Served /\ DoAction(h, client, uri)
    \/ \E h \in Handlers, engine_ok \in BOOLEAN : TxnBeginInit(h, engine_ok)
    \/ \E h \in Handlers : TxnCommitFailed(h)
    \/ \E h \in Handlers, engine_ok \in BOOLEAN : TxnCommitFinish(h, engine_ok)
    \/ \E h \in Handlers, client \in ClientIds, uri \in PutUris : Served /\ DoPut(h, client, uri)
    \/ \E h \in Handlers, client \in ClientIds, uri \in ExchangeUris : Served /\ DoExchange(h, client, uri)
    \/ \E h \in Handlers, client \in ClientIds, uri \in GetUris : Served /\ DoGet(h, client, uri)
    \/ \E h \in Handlers : LockFailed(h)
    \/ \E h \in Handlers, engine_ok \in BOOLEAN : Call(h, engine_ok)
    \/ \E h \in Handlers : Finish(h)
    \/ \E h \in Handlers : StreamDone(h)

\* The handlers served command by command, within one reading of the clock.
SpecServe == Init /\ [][NextServe]_vars

\* ------------------------------------- actions on collections and snapshots

\* "?p", "?p&q" and "k=v".
Query1(p) == <<"?">> \o p
Query2(p, q) == <<"?">> \o p \o <<"&">> \o q
KeyValue(k, v) == k \o <<"=">> \o v

\* "col=1"
ColOne == KeyValue(kParamCollectionID, <<"1">>)

AdminUris ==
    {Uri("collection_open", q) :
        q \in {<<>>, Query1(KeyValue(kParamCollectionName, <<"a">>)), Query1(kParamCollectionName), Query1(ColOne)}}
    \cup {Uri("collection_drop", q) :
        q \in {<<>>, Query1(ColOne), Query1(KeyValue(kParamCollectionID, <<"z">>)),
               Query2(ColOne, KeyValue(kParamDropMode, kParamDropModeValues)),
               Query2(KeyValue(kParamDropMode, kParamDropModeContents), ColOne),
               Query2(ColOne, KeyValue(kParamDropMode, <<"c", "o", "l", "l", "e", "c", "t", "i", "o", "n">>)),
               Query2(ColOne, KeyValue(kParamDropMode, <<"x">>)),
               Query2(ColOne, kParamDropMode),
               Query1(KeyValue(kParamDropMode, kParamDropModeValues)),
               Query1(KeyValue(kParamCollectionName, kParamCollectionID))}}
    \cup {Uri("snapshot_open", q) :
        q \in {<<>>, Query1(KeyValue(kParamSnapshotID, <<"1">>)), Query1(ColOne), Query1(kParamSnapshotID \o <<"/">>)}}
    \cup {Uri("snapshot_drop", q) :
        q \in {<<>>, Query1(KeyValue(kParamSnapshotID, <<"1">>)), Query1(KeyValue(kParamSnapshotID, <<"x">>)),
               Query1(KeyValue(kParamCollectionID, kParamSnapshotID))}}
    \cup {Uri("txn_begin", TxnParam(<<"1">>))}
    \cup {Uri("txn_commit", q) : q \in {<<>>, TxnParam(<<"1">>), Query1(KeyValue(kParamCollectionID, kParamTransactionID))}}

NextAdmin ==
    \/ \E h \in Handlers, client \in ClientIds, uri \in AdminUris : Served /\ DoAction(h, client, uri)
    \/ \E h \in Handlers, engine_ok \in BOOLEAN : TxnBeginInit(h, engine_ok)
    \/ \E h \in Handlers : TxnCommitFailed(h)
    \/ \E h \in Handlers, engine_ok \in BOOLEAN : TxnCommitFinish(h, engine_ok)

SpecAdmin == Init /\ [][NextAdmin]_vars

\* ----------------------------------------------- param_value on its own

\* The characters parameter strings are made of, and the longest tail after
\* the leading "?".
ParamChars == {"a", "b", "=", "&", "/"}
MaxParamLen == 3

\* "?a=1&bc=2"
ExampleParams == <<"?", "a", "=", "1", "&", "b", "c", "=", "2">>

ParamStrings ==
    {<<"?">> \o t : t \in UNION {[1 .. n -> ParamChars] : n \in 1 .. MaxParamLen}} \cup {ExampleParams}

ParamNames == {<<"a">>, <<"b">>, <<"b", "c">>, <<"a", "b">>}

InitParam ==
    /\ free_arenas_ = [i \in 1 .. Capacity |-> i]
    /\ free_txns_ = [i \in 1 .. Capacity |-> i]
    /\ client_to_txn_ = [k \in {} |-> NullRunning]
    /\ now = 0
    /\ ticks = 0
    /\ requests = 0
    /\ pc = [h \in Handlers |-> "idle"]
    /\ sid = [h \in Handlers |-> NoSession]
    /\ session = [h \in Handlers |-> NullRunning]
    /\ status = [h \in Handlers |-> "ok"]
    /\ ret = NoReturn
    /\ evicted = NoSession
    /\ crashed = FALSE
    /\ store = EmptyStore
    /\ txn_writes = [t \in Slots |-> NoWrites]
    /\ last_write = NoWrite
    /\ cmd = [h \in Handlers |-> NoCmd]
    /\ request = NoRequest
    /\ batch = NoBatch
    /\ command = <<>>
    /\ matched = NoneMatched
    /\ column_args = NoColumnArgs
    /\ column_built = NoColumn
    /\ query_params \in ParamStrings
    /\ param_name \in ParamNames
    /\ found = NotCalled

\* One call of param_value on the arguments drawn.
ParamValue ==
    /\ found = NotCalled
    /\ found' = param_value(query_params, param_name)
    /\ UNCHANGED <<free_arenas_, free_txns_, client_to_txn_, now, ticks, requests, pc, sid, session, status, ret, evicted, crashed>>
    /\ UNCHANGED <<store, txn_writes, last_write, cmd>>
    /\ UNCHANGED <<query_params, param_name>>
    /\ UNCHANGED shapeVars
    /\ UNCHANGED queryVars

NextParam == ParamValue

SpecParam == InitParam /\ [][NextParam]_vars


\* ------------------------------------------------- marshalling a response
\* DoExchange and DoGet build the response batch from what the engine found;
\* the batch is a function of the verb, the part asked for, the number of
\* input rows and the engine's counts.

\* The most input rows of a read, the most input rows of a match or scan and
\* the most results the engine finds for one row.
MaxKeys == 9
MaxRows == 2
MaxCount == 2

CHAR_BIT == 8

\* divide_round_up(number, divisor)
divide_round_up(number, divisor) == (number + divisor - 1) \div divisor

\* A buffer of an arena: what it holds, the type of its entries and the
\* entries; and the null pointer.
Buffer(name, type, items) == [name |-> name, type |-> type, items |-> items]
NullBuffer == Buffer("nullptr", "none", <<>>)

\* n entries whose values do not matter here.
Opaque(n) == [i \in 1 .. n |-> 0]

\* What memory that was allocated and never written may hold.
Garbage == {0, 1}

\* ustore_doc_field<T>(): the field type of a C type of the engine.
ustore_doc_field(T) ==
    CASE T = "ustore_length_t" -> "u32"
      [] T = "ustore_octet_t" -> "u8"
      [] T = "ustore_key_t" -> "i64"
      [] T = "ustore_collection_t" -> "u64"
      [] T = "ustore_snapshot_t" -> "u64"

\* A child ArrowSchema / ArrowArray pair as malloc left it.
Unfilled ==
    [filled |-> FALSE, name |-> "", format |-> "none", length |-> 0, nullable |-> FALSE, null_count |-> 0,
     n_buffers |-> 0, slots |-> 0, written |-> {},
     validity |-> NullBuffer, offsets |-> NullBuffer, contents |-> NullBuffer]

\* array->n_buffers by field type: the switch of ustore_to_arrow_column.
n_buffers_of(field_type) ==
    IF field_type \in {"bin", "str"} THEN 3
    ELSE IF field_type = "null" THEN 0
    ELSE 2

\* ustore_to_arrow_schema(docs_count, fields_count, schema, array, error)
ustore_to_arrow_schema(docs_count, fields_count) ==
    [status |-> "ok", length |-> docs_count, n_children |-> fields_count,
     children |-> [i \in 1 .. fields_count |-> Unfilled]]

\* ustore_to_arrow_column that links no validity bitmap.
ustore_to_arrow_column_no_validity(docs_count, field_name, field_type, column_validities, column_offsets, column_contents) ==
    LET n_buffers == n_buffers_of(field_type)
    IN [filled |-> TRUE, name |-> field_name, format |-> field_type, length |-> docs_count,
        nullable |-> FALSE, null_count |-> 0,
        n_buffers |-> n_buffers, slots |-> n_buffers,
        written |-> IF n_buffers = 2 THEN {0, 1} ELSE {0, 1, 2},
        validity |-> NullBuffer,
        offsets |-> IF n_buffers = 2 THEN NullBuffer ELSE column_offsets,
        contents |-> column_contents]

\* ustore_to_arrow_column with null_count left unknown for every column.
ustore_to_arrow_column_unknown_nulls(docs_count, field_name, field_type, column_validities, column_offsets, column_contents) ==
    LET n_buffers == n_buffers_of(field_type)
    IN [filled |-> TRUE, name |-> field_name, format |-> field_type, length |-> docs_count,
        nullable |-> column_validities # NullBuffer, null_count |-> -1,
        n_buffers |-> n_buffers, slots |-> n_buffers,
        written |-> IF n_buffers = 2 THEN {0, 1} ELSE {0, 1, 2},
        validity |-> column_validities,
        offsets |-> IF n_buffers = 2 THEN NullBuffer ELSE column_offsets,
        contents |-> column_contents]

\* ustore_to_arrow_column(docs_count, field_name, field_type, column_validities,
\* column_offsets, column_contents, schema, array, error) once array->buffers
\* is allocated: the child it fills in. `slots` is the number of buffer
\* slots allocated and `written` the slot indices the function writes; with
\* two buffers it writes slots 0 and 1, otherwise slots 0, 1 and 2.
ustore_to_arrow_column(docs_count, field_name, field_type, column_validities, column_offsets, column_contents) ==
    LET n_buffers == n_buffers_of(field_type)
    IN [filled |-> TRUE, name |-> field_name, format |-> field_type, length |-> docs_count,
        nullable |-> column_validities # NullBuffer,
        null_count |-> IF column_validities # NullBuffer THEN -1 ELSE 0,
        n_buffers |-> n_buffers, slots |-> n_buffers,
        written |-> IF n_buffers = 2 THEN {0, 1} ELSE {0, 1, 2},
        validity |-> column_validities,
        offsets |-> IF n_buffers = 2 THEN NullBuffer ELSE column_offsets,
        contents |-> column_contents]

\* ustore_to_arrow_list(docs_count, field_name, field_type, column_validities,
\* column_offsets, column_contents, schema, array, error): the list column
\* with its two buffers and its one child `chunks`, which holds
\* column_offsets[docs_count] entries and is built without validity and
\* without offsets.
ustore_to_arrow_list(docs_count, field_name, field_type, column_validities, column_offsets, column_contents) ==
    [filled |-> TRUE, name |-> field_name, format |-> "+l", length |-> docs_count,
     nullable |-> column_validities # NullBuffer,
     null_count |-> IF column_validities # NullBuffer THEN -1 ELSE 0,
     n_buffers |-> 2, slots |-> 2, written |-> {0, 1},
     validity |-> column_validities, offsets |-> column_offsets, contents |-> NullBuffer,
     children |-> <<ustore_to_arrow_column(column_offsets.items[docs_count + 1], "chunks", field_type,
                                           NullBuffer, NullBuffer, column_contents)>>]

\* The batch with its child i filled in.
Child(b, i, column) == [b EXCEPT !.children[i] = column]

\* std::accumulate(counts, counts + n, 0)
RECURSIVE Accumulate(_)
Accumulate(counts) == IF counts = <<>> THEN 0 ELSE Head(counts) + Accumulate(Tail(counts))

\* The offsets the engine reports with its counts: the n + 1 prefix sums.
PrefixSums(counts) == [i \in 1 .. Len(counts) + 1 |-> Accumulate(SubSeq(counts, 1, i - 1))]

\* DoExchange, read and read_path: the output batch.
ReadBatch(req) ==
    LET tasks_count == req.tasks_count
        part == read_part(req)
        found_presences == Buffer("found_presences", "u8", Opaque(divide_round_up(tasks_count, CHAR_BIT)))
        found_offsets == Buffer("found_offsets", "u32", Opaque(tasks_count + 1))
        found_lengths == Buffer("found_lengths", "u32", Opaque(tasks_count))
        found_values == Buffer("found_values", "u8", <<>>)
        result_length == IF part = "presences" THEN divide_round_up(tasks_count, CHAR_BIT) ELSE tasks_count
        output == ustore_to_arrow_schema(result_length, 1)
    IN IF part = "content"
       THEN Child(output, 1, ustore_to_arrow_column(result_length, "vals", "bin",
                                                    found_presences, found_offsets, found_values))
       ELSE IF part = "lengths"
       THEN Child(output, 1, ustore_to_arrow_column(result_length, "lengths", ustore_doc_field("ustore_length_t"),
                                                    found_presences, NullBuffer, found_lengths))
       ELSE Child(output, 1, ustore_to_arrow_column(result_length, "presences", ustore_doc_field("ustore_octet_t"),
                                                    NullBuffer, NullBuffer, found_presences))

\* The process died while the batch was built.
FaultedBatch == [NoBatch EXCEPT !.status = "fault"]

\* DoExchange, match_path: the number of entries of the buffer rounded_counts
\* that receives the copy: arena.alloc<ustore_length_t>(result_length), which
\* is null when result_length is 0.
rounded_counts_size(found_counts) == Accumulate(found_counts)

\* DoExchange, match_path: the number of entries std::copy(found_counts,
\* found_counts + tasks_count, rounded_counts.begin()) writes; there is no
\* copy when rounded_counts is null.
rounded_counts_copied(found_counts) == IF Accumulate(found_counts) # 0 THEN Len(found_counts) ELSE 0

\* DoExchange, match_path: rounded_counts after the allocation and the copy.
\* The buffer has as many entries as matches were found, or one entry when
\* none was; tasks_count counts are copied into it, past its end when there
\* are more rows than matches, and entries not copied to stay as allocated.
RoundedCounts(found_counts) ==
    LET tasks_count == Len(found_counts)
        result_length == Accumulate(found_counts)
    IN IF result_length = 0
       THEN {Buffer("rounded_counts", "u32", <<g>>) : g \in Garbage}
       ELSE IF tasks_count > result_length
       THEN {NullBuffer, Buffer("rounded_counts", "u32", SubSeq(found_counts, 1, result_length))}
       ELSE {Buffer("rounded_counts", "u32", found_counts \o rest) :
                rest \in [1 .. result_length - tasks_count -> Garbage]}

\* DoExchange, match_path: the output batches that may be built; the copy
\* past the end of rounded_counts faults or goes unnoticed.
MatchPathBatch(req) ==
    LET request_content == ~OptEquals(req.read_part, kParamReadPartLengths)
        found_offsets == Buffer("found_offsets", "u32", PrefixSums(req.found_counts))
        found_values == Buffer("found_values", "u8", <<>>)
    IN {IF rounded_counts = NullBuffer
        THEN FaultedBatch
        ELSE LET result_length == Len(rounded_counts.items)
                 output == ustore_to_arrow_schema(result_length, IF request_content THEN 2 ELSE 1)
                 lengths == Child(output, 1, ustore_to_arrow_column(result_length, "lengths",
                                                                    ustore_doc_field("ustore_length_t"),
                                                                    NullBuffer, NullBuffer, rounded_counts))
             IN IF request_content
                THEN Child(lengths, 2, ustore_to_arrow_column(result_length, "vals", "bin",
                                                              NullBuffer, found_offsets, found_values))
                ELSE lengths
        : rounded_counts \in RoundedCounts(req.found_counts)}

\* DoExchange, scan and sample: the output batch.
ScanBatch(req) ==
    LET tasks_count == req.tasks_count
        found_offsets == Buffer("found_offsets", "u32", PrefixSums(req.found_counts))
        found_keys == Buffer("found_keys", "i64", Opaque(found_offsets.items[tasks_count + 1]))
        output == ustore_to_arrow_schema(found_offsets.items[tasks_count + 1], 2)
        keys == Child(output, 1, ustore_to_arrow_column(found_offsets.items[tasks_count + 1], "keys",
                                                        ustore_doc_field("ustore_key_t"),
                                                        NullBuffer, NullBuffer, found_keys))
    IN Child(keys, 2, ustore_to_arrow_column(found_offsets.items[tasks_count + 1], "offsets",
                                             ustore_doc_field("ustore_key_t"),
                                             NullBuffer, NullBuffer, found_offsets))

\* DoGet, list_cols: the batch of `count` collections.
ListColsBatch(count) ==
    LET collections == Buffer("collections", "u64", Opaque(count))
        offsets == Buffer("offsets", "u32", Opaque(count + 1))
        names == Buffer("names", "u8", <<>>)
        schema == ustore_to_arrow_schema(count, 2)
        cols == Child(schema, 1, ustore_to_arrow_column(count, "cols", ustore_doc_field("ustore_collection_t"),
                                                        NullBuffer, NullBuffer, collections))
    IN Child(cols, 2, ustore_to_arrow_column(count, "names", "str", NullBuffer, offsets, names))

\* DoGet, list_snaps: OK without a stream when there is no snapshot, else the
\* batch of `count` snapshots, imported with its second child as allocated.
ListSnapsBatch(count) ==
    IF count = 0
    THEN {[NoBatch EXCEPT !.status = "no_stream"]}
    ELSE LET snapshots == Buffer("snapshots", "u64", Opaque(count))
             schema == ustore_to_arrow_schema(count, 2)
             snaps == Child(schema, 1, ustore_to_arrow_column(count, "snaps", ustore_doc_field("ustore_snapshot_t"),
                                                              NullBuffer, NullBuffer, snapshots))
         IN {[snaps EXCEPT !.status = imported] : imported \in ImportOfUnsetBatch}

\* The texts of the parameter part, and the counts the engine may report.
PartTexts == {NullOpt, SomeEmptyView, Some(kParamReadPartLengths), Some(kParamReadPartPresences), Some(<<"x">>)}
FoundCounts == UNION {[1 .. n -> 0 .. MaxCount] : n \in 0 .. MaxRows}

ShapeRequests ==
    {[verb |-> v, read_part |-> p, tasks_count |-> n, found_counts |-> <<>>] :
        v \in {"read", "read_path"}, p \in PartTexts, n \in 0 .. MaxKeys}
    \cup {[verb |-> "match_path", read_part |-> p, tasks_count |-> Len(c), found_counts |-> c] :
        p \in PartTexts, c \in FoundCounts}
    \cup {[verb |-> v, read_part |-> NullOpt, tasks_count |-> Len(c), found_counts |-> c] :
        v \in {"scan", "sample"}, c \in FoundCounts}
    \cup {[verb |-> v, read_part |-> NullOpt, tasks_count |-> n, found_counts |-> <<>>] :
        v \in {"list_cols", "list_snaps"}, n \in 0 .. MaxRows}

InitShape ==
    /\ free_arenas_ = [i \in 1 .. Capacity |-> i]
    /\ free_txns_ = [i \in 1 .. Capacity |-> i]
    /\ client_to_txn_ = [k \in {} |-> NullRunning]
    /\ now = 0
    /\ ticks = 0
    /\ requests = 0
    /\ pc = [h \in Handlers |-> "idle"]
    /\ sid = [h \in Handlers |-> NoSession]
    /\ session = [h \in Handlers |-> NullRunning]
    /\ status = [h \in Handlers |-> "ok"]
    /\ ret = NoReturn
    /\ evicted = NoSession
    /\ crashed = FALSE
    /\ store = EmptyStore
    /\ txn_writes = [t \in Slots |-> NoWrites]
    /\ last_write = NoWrite
    /\ cmd = [h \in Handlers |-> NoCmd]
    /\ query_params = ExampleParams
    /\ param_name = <<"a">>
    /\ found = NotCalled
    /\ request \in ShapeRequests
    /\ batch = NoBatch
    /\ command = <<>>
    /\ matched = NoneMatched
    /\ column_args = NoColumnArgs
    /\ column_built = NoColumn

\* The batch is built; nothing else changes.
Built(batches) ==
    /\ batch = NoBatch
    /\ batch' \in batches
    /\ UNCHANGED <<free_arenas_, free_txns_, client_to_txn_, now, ticks, requests, pc, sid, session, status, ret, evicted, crashed>>
    /\ UNCHANGED <<query_params, param_name, found, store, txn_writes, last_write, cmd, request>>
    /\ UNCHANGED queryVars

\* DoExchange from the engine call to ar::ImportRecordBatch.
ExchangeResponse ==
    \/ request.verb \in {"read", "read_path"} /\ Built({ReadBatch(request)})
    \/ request.verb = "match_path" /\ Built(MatchPathBatch(request))
    \/ request.verb \in {"scan", "sample"} /\ Built({ScanBatch(request)})

\* DoGet from the engine call to ar::ImportRecordBatch.
GetResponse ==
    \/ request.verb = "list_cols" /\ Built({ListColsBatch(request.tasks_count)})
    \/ request.verb = "list_snaps" /\ Built(ListSnapsBatch(request.tasks_count))

NextShape == ExchangeResponse \/ GetResponse

SpecShape == InitShape /\ [][NextShape]_vars


\* ------------------------------------------------------ notions for claims

Sessions == DOMAIN client_to_txn_

\* The manager in the next state.
ManagerNext == [free_arenas_ |-> free_arenas_', free_txns_ |-> free_txns_', client_to_txn_ |-> client_to_txn_']

\* Handler h is between a successful continue_txn (directly in txn_commit, or
\* through lock) and its hold_txn / release_txn.
Executing(h) ==
    \/ pc[h] = "txn_commit"
    \/ pc[h] = "locked" /\ session_lock_is_txn(session[h])

\* Handler h holds a record popped by request_txn and not yet held, or an
\* arena borrowed by request_arena.
HoldsPopped(h) ==
    \/ pc[h] = "txn_begin"
    \/ pc[h] = "locked" /\ ~session_lock_is_txn(session[h])

\* Handler h has handles in its local running_txn_t / session_lock_t.
HoldsHandles(h) == pc[h] \in {"txn_begin", "txn_commit", "locked"}

Occurrences(s, x) == Cardinality({i \in 1 .. Len(s) : s[i] = x})
Elements(s) == {s[i] : i \in 1 .. Len(s)}

\* ------------------------------------------------------------------ claims

\* C1: pool conservation. Whenever no handler holds a popped record or a
\* borrowed arena, the size of each free stack plus the size of the session
\* map equals the capacity.
C1_PoolConservation ==
    (~crashed /\ \A h \in Handlers : ~HoldsPopped(h)) =>
        /\ Len(free_txns_) + Cardinality(Sessions) = Capacity
        /\ Len(free_arenas_) + Cardinality(Sessions) = Capacity

\* C2: per-session mutual exclusion. No two handlers are at the same time
\* between a successful continue_txn and the matching hold_txn / release_txn
\* of the same session id.
C2_MutualExclusion ==
    \A h1, h2 \in Handlers :
        (h1 # h2 /\ Executing(h1) /\ Executing(h2)) => sid[h1] # sid[h2]

\* C3: handle disjointness. No transaction handle or arena referenced by a
\* record of the session map, or held by a handler, is in a free stack, and no
\* handle is twice in a free stack.
C3_HandleDisjointness ==
    /\ \A s \in Sessions :
          /\ client_to_txn_[s].txn \notin Elements(free_txns_)
          /\ client_to_txn_[s].arena \in Slots => client_to_txn_[s].arena \notin Elements(free_arenas_)
    /\ \A h \in Handlers : HoldsHandles(h) =>
          /\ session[h].txn \in Slots => session[h].txn \notin Elements(free_txns_)
          /\ session[h].arena \in Slots => session[h].arena \notin Elements(free_arenas_)
    /\ \A x \in Slots : Occurrences(free_txns_, x) <= 1 /\ Occurrences(free_arenas_, x) <= 1

\* C4: capacity bound. In every state, also after a lock that failed, the
\* session map and each free stack together hold at most `capacity` entries.
C4_CapacityBound ==
    /\ Cardinality(Sessions) + Len(free_txns_) <= Capacity
    /\ Cardinality(Sessions) + Len(free_arenas_) <= Capacity

\* A step of handler h that belongs to a request that fails with conflict:
\* the continue_txn that fails, or the return of that request.
ConflictStep(h) ==
    \/ pc[h] = "idle" /\ pc'[h] \in {"txn_commit_failed", "lock_failed"} /\ status'[h] = "conflict"
    \/ pc[h] \in {"txn_commit_failed", "lock_failed"} /\ status[h] = "conflict" /\ pc'[h] = "idle"

\* The session id of the request handler h is serving in this step.
StepSid(h) == IF pc[h] = "idle" THEN sid'[h] ELSE sid[h]

\* C5: conflict leaves the owner untouched. No step of a request that fails
\* with conflict changes the map entry of the session it referenced: the
\* entry stays in the map with the same handles, flag and last_access.
C5_ConflictLeavesOwner ==
    [][\A h \in Handlers :
          (ConflictStep(h) /\ StepSid(h) \in DOMAIN client_to_txn_) =>
              /\ StepSid(h) \in DOMAIN client_to_txn_'
              /\ client_to_txn_'[StepSid(h)] = client_to_txn_[StepSid(h)]]_vars


AllIdle == \A h \in Handlers : pc[h] = "idle"

\* C6: no session is left executing. When a handler that held a session has
\* just returned, on whichever path, that session is absent from the map or is
\* in it with executing = false (and, after a data verb, with last_access set
\* to the time of the return); and whenever no handler is in flight no record
\* of the map has executing = true.
C6_NoSessionLeftExecuting ==
    /\ AllIdle => \A s \in Sessions : ~client_to_txn_[s].executing
    /\ (ret.verb # "none" /\ ret.txn # NullHandle) =>
          \/ ret.sid \notin Sessions
          \/ /\ ~client_to_txn_[ret.sid].executing
             /\ ret.verb = "data" => client_to_txn_[ret.sid].last_access = now

\* C6, reached: a data verb on a transaction failed in the engine and has
\* returned, some time after the start; its session is idle in the map.
C6_Witness ==
    /\ AllIdle /\ now > 0
    /\ ret.verb = "data" /\ ret.err = "engine" /\ ret.txn # NullHandle
    /\ ret.sid \in Sessions
    /\ ~client_to_txn_[ret.sid].executing
    /\ client_to_txn_[ret.sid].last_access = now

\* Handler h takes the request_txn step of a txn_begin in this step.
RequestTxnStep(h) ==
    /\ pc[h] = "idle" /\ requests' = requests + 1 /\ ~crashed'
    /\ \/ pc'[h] = "txn_begin"
       \/ pc'[h] = "idle" /\ ret'.verb = "txn_begin"

\* The session id that request_txn step is for.
RequestTxnSid(h) == IF pc'[h] = "txn_begin" THEN sid'[h] ELSE ret'.sid

\* Handler h takes the request_arena step of a non-transactional data verb.
RequestArenaStep(h) ==
    /\ pc[h] = "idle" /\ pc'[h] \in {"locked", "lock_failed"}
    /\ ~session_id_is_txn(sid'[h])

\* Handler h returns from a txn_begin that succeeded.
BeginSucceedsStep(h) == pc[h] = "txn_begin" /\ pc'[h] = "idle" /\ ret'.err = "ok"

\* C7: duplicate begin is rejected. A txn_begin for a session id that is in
\* the map fails as a duplicate and changes nothing, and no txn_begin succeeds
\* for a session id while a session begun under that id is in the map.
C7_DuplicateBeginRejected ==
    [][\A h \in Handlers :
          /\ (RequestTxnStep(h) /\ RequestTxnSid(h) \in Sessions) =>
                (ret'.err = "duplicate" /\ ManagerNext = Manager)
          /\ BeginSucceedsStep(h) => sid[h] \notin Sessions]_vars

\* C8: commit terminates the session. When a txn_commit whose continue_txn
\* succeeded has just returned, after the engine committed or failed, the
\* session is not in the map, its transaction handle and its arena are each
\* exactly once in their free stack, and continue_txn on it reports not-found.
C8_CommitTerminatesSession ==
    (ret.verb = "txn_commit" /\ ret.err \in {"ok", "engine"}) =>
        /\ ret.sid \notin Sessions
        /\ Occurrences(free_txns_, ret.txn) = 1
        /\ ret.arena \in Slots => Occurrences(free_arenas_, ret.arena) = 1
        /\ \A r \in continue_txn(Manager, ret.sid, now) : r.err = "not_found"

\* The age of a record as the specification defines it: now minus last_access,
\* in milliseconds.
AgeMs(rec) == duration_cast_ms(now - rec.last_access)

PoolExhausted == Len(free_txns_) = 0 \/ Len(free_arenas_) = 0

\* Every session that is not executing is younger than the idle timeout.
AllYoung == \A s \in Sessions : ~client_to_txn_[s].executing => AgeMs(client_to_txn_[s]) < milliseconds_timeout

\* C9: eviction refuses young sessions. With the pool exhausted and every
\* non-executing session of the (non-empty) map younger than the idle
\* timeout, request_txn and request_arena fail with capacity-exhausted and
\* leave the map and both free stacks as they were.
C9_EvictionRefusesYoung ==
    [][\A h \in Handlers : (Sessions # {} /\ AllYoung) =>
          /\ (RequestTxnStep(h) /\ PoolExhausted /\ RequestTxnSid(h) \notin Sessions) =>
                (pc'[h] = "idle" /\ ret'.err = "exhausted" /\ ManagerNext = Manager)
          /\ (RequestArenaStep(h) /\ Len(free_arenas_) = 0) =>
                (pc'[h] = "lock_failed" /\ status'[h] = "exhausted" /\ ManagerNext = Manager)]_vars

NoneExecuting == \A s \in Sessions : ~client_to_txn_[s].executing

\* v is a session with the smallest last_access.
Oldest(v) == \A s \in Sessions : client_to_txn_[v].last_access <= client_to_txn_[s].last_access

OldestExpired == \E v \in Sessions : Oldest(v) /\ AgeMs(client_to_txn_[v]) >= milliseconds_timeout

\* C10: eviction admits a new session over an expired one. With the pool
\* exhausted, no session executing and the oldest session at least the idle
\* timeout old, request_txn for a new session id succeeds: it removes exactly
\* one session with the smallest last_access from the map, hands that
\* session's transaction handle and arena to the caller, leaves the free
\* stacks alone, and continue_txn on the evicted id then reports not-found.
C10_EvictionAdmitsOverExpired ==
    [][\A h \in Handlers :
          (/\ RequestTxnStep(h) /\ RequestTxnSid(h) \notin Sessions
           /\ PoolExhausted /\ NoneExecuting /\ OldestExpired) =>
              /\ pc'[h] = "txn_begin"
              /\ \E v \in Sessions :
                    /\ Oldest(v)
                    /\ evicted' = v
                    /\ client_to_txn_' = Erase(client_to_txn_, v)
                    /\ session'[h].txn = client_to_txn_[v].txn
                    /\ session'[h].arena = client_to_txn_[v].arena
                    /\ session'[h].executing /\ session'[h].last_access = now
                    /\ free_txns_' = free_txns_ /\ free_arenas_' = free_arenas_
                    /\ \A r \in continue_txn(ManagerNext, v, now) : r.err = "not_found"]_vars

\* C10, reached: a txn_begin has just evicted a session, a full idle timeout
\* after the start, and holds the handles for its new session.
C10_Witness ==
    /\ evicted # NoSession /\ evicted \notin Sessions
    /\ now >= milliseconds_timeout * ClockTicksPerMs
    /\ \E h \in Handlers : pc[h] = "txn_begin" /\ sid[h] # evicted /\ session[h].last_access = now
    /\ PoolExhausted

\* k occurs in s at position i, after "?", "&" or "/" and before "=", "&",
\* "/" or the end of the string.
DelimitedAt(s, k, i) ==
    /\ MatchesAt(s, k, i)
    /\ i >= 2 /\ s[i - 1] \in {"?", "&", "/"}
    /\ i + Len(k) = Len(s) + 1 \/ s[i + Len(k)] \in {"=", "&", "/"}

Delimited(s, k) == \E i \in 1 .. Len(s) : DelimitedAt(s, k, i)

\* C20: URI parameter presence. param_value reports the key present exactly
\* when the string has an occurrence of it that follows "?", "&" or "/" and
\* is followed by "=", "&", "/" or the end; for "?a=1&bc=2" it returns "1"
\* for a, "2" for bc and absent for b.
C20_ParamPresence ==
    found # NotCalled =>
        /\ found.present <=> Delimited(query_params, param_name)
        /\ query_params = ExampleParams =>
              /\ param_name = <<"a">> => (found.present /\ found.value = <<"1">>)
              /\ param_name = <<"b", "c">> => (found.present /\ found.value = <<"2">>)
              /\ param_name = <<"b">> => ~found.present

\* C11: response buffers outlive serialization. While the transport is still
\* writing the batch of a data response, the arena the batch aliases is not
\* in free_arenas_, its session is not idle in the map, and no other handler
\* holds that arena.
C11_BuffersOutliveSerialization ==
    \A h \in Handlers :
        pc[h] = "streaming" =>
            /\ cmd[h].aliased \notin Elements(free_arenas_)
            /\ \A id \in DOMAIN client_to_txn_ :
                  client_to_txn_[id].arena = cmd[h].aliased => client_to_txn_[id].executing
            /\ \A g \in Handlers \ {h} : session[g].arena # cmd[h].aliased

\* C12: transaction id 0 is never a session. No key of the session map has
\* the TransactionId 0, whatever txn_begin was given.
C12_ZeroIsNoSession ==
    \A id \in DOMAIN client_to_txn_ : id.txn_id # 0

\* The command c carries the parameter txn with the hexadecimal text of t.
CarriesTxn(c, t) ==
    LET v == param_value(c.uri.query, kParamTransactionID)
    IN /\ v.present /\ ~v.null /\ v.value # <<>>
       /\ StrToULL(v.value) = [result |-> t, end |-> Len(v.value) + 1]

\* Handler h returns from a txn_begin that succeeded.
BeginReturnsStep(h) == pc[h] = "txn_begin" /\ pc'[h] = "idle" /\ ret'.err = "ok"

\* Handler h passes sessions_.lock for a data request of the client of id
\* that carries txn=id.txn_id, while the session id is idle in the map.
DataOnIdleStep(h, id) ==
    /\ pc[h] = "idle" /\ pc'[h] \in {"locked", "lock_failed"}
    /\ sid'[h].client_id = id.client_id
    /\ CarriesTxn(cmd'[h], id.txn_id)
    /\ id \in DOMAIN client_to_txn_ /\ ~client_to_txn_[id].executing

\* C13: a begun transaction is usable under the returned id. When txn_begin
\* returns OK the map holds (client, id) with executing = false, and a data
\* request of that client carrying txn=id on the idle session acquires it and
\* gives the engine the session's transaction handle.
C13_BegunIsUsable ==
    [][/\ \A h \in Handlers :
             BeginReturnsStep(h) =>
                 /\ ret'.sid \in DOMAIN client_to_txn_'
                 /\ ~client_to_txn_'[ret'.sid].executing
       /\ \A h \in Handlers, id \in SessionIds :
             DataOnIdleStep(h, id) =>
                 /\ pc'[h] = "locked"
                 /\ session'[h].txn # NullHandle
                 /\ session'[h].txn = client_to_txn_[id].txn]_vars

\* Handler h makes the engine call of a write that carries txn=t for the
\* begun transaction (sid[h].client_id, t), and the call succeeds.
WriteInTxnStep(h, t) ==
    /\ pc[h] = "locked" /\ pc'[h] = "called" /\ status'[h] = "ok"
    /\ is_query(cmd[h].uri, "write")
    /\ CarriesTxn(cmd[h], t)
    /\ sid[h] \in DOMAIN client_to_txn_

\* Handler h commits its transaction and the engine call succeeds.
CommitSucceedsStep(h) == pc[h] = "txn_commit" /\ pc'[h] = "idle" /\ ret'.err = "ok"

\* What a read of key k returns to a reader with the transaction handle r
\* (NullHandle: a non-transactional reader) in the engine state e.
ReadBy(e, r, k) == Found(ustore_read(e, r, k))

\* C14: transactional visibility through the dispatcher. A write carrying
\* txn=T for a begun T changes nothing that a read not carrying txn=T
\* returns; once txn_commit(T) has succeeded such reads return what was
\* written in T.
C14_TxnVisibility ==
    [][/\ \A h \in Handlers, t \in TxnIds :
             WriteInTxnStep(h, t) =>
                 \A r \in (Slots \ {session[h].txn}) \cup {NullHandle}, k \in Keys :
                     ReadBy(Engine, r, k) = ReadBy([store |-> store', txn_writes |-> txn_writes'], r, k)
       /\ \A h \in Handlers :
             CommitSucceedsStep(h) =>
                 \A k \in Keys :
                     txn_writes[session[h].txn][k].written =>
                         ReadBy([store |-> store', txn_writes |-> txn_writes'], NullHandle, k)
                             = Found(txn_writes[session[h].txn][k].entry)]_vars

\* Handler h makes the engine call of a read for the session and the key of
\* the last write, and the call succeeds: a write followed by a read in the
\* same session (the same client, both without a transaction or both under
\* the same transaction id).
ReadAfterWriteStep(h) ==
    /\ pc[h] = "locked" /\ pc'[h] = "called" /\ status'[h] = "ok"
    /\ is_query(cmd[h].uri, "read")
    /\ last_write # NoWrite
    /\ last_write.sid = sid[h] /\ last_write.key = cmd[h].key

C16_ClearVersusErase ==
    [][\A h \in Handlers :
          ReadAfterWriteStep(h) =>
              LET part == cmd[h].part
                  response == cmd'[h].response
              IN /\ last_write.val = Value(<<>>) =>
                       /\ part = "presences" => response.bits = <<TRUE>>
                       /\ part = "lengths" => (response.valid /\ response.length = 0)
                       /\ part = "content" => (response.valid /\ response.length = 0)
                 /\ last_write.val = NullValue =>
                       /\ part = "presences" => response.bits = <<FALSE>>
                       /\ part = "lengths" => response.length = ustore_length_missing_k]_vars

\* A read of the lengths has reported the missing marker for a key that the
\* last write, by a request that has returned, had erased with a null value.
C16_Witness ==
    \E h \in Handlers :
        /\ pc[h] = "called" /\ status[h] = "ok"
        /\ is_query(cmd[h].uri, "read") /\ cmd[h].part = "lengths"
        /\ last_write.by = 0 /\ last_write.sid = sid[h] /\ last_write.key = cmd[h].key
        /\ last_write.val = NullValue
        /\ cmd[h].response.length = ustore_length_missing_k

\* The verbs of the command set that the handlers are modelled for.
CommandSet == {"txn_begin", "txn_commit", "write", "read", "list_cols"}

\* The step returns a status to the transport.
ReturnStep == ret' # NoReturn /\ ~crashed'

\* C17: unknown verbs are rejected in every verb category. A command of
\* DoAction, DoPut, DoExchange or DoGet whose verb is not in the command set
\* returns the not-implemented status without an engine call, and the session
\* map and the free stacks are as they were.
C17_UnknownVerbRejected ==
    [][(ReturnStep /\ ret'.cmd.cat # "none" /\ ret'.cmd.uri.verb \notin CommandSet) =>
          /\ ret'.code = "NotImplemented"
          /\ ret'.cmd.calls = 0
          /\ requests' # requests => Manager = [free_arenas_ |-> free_arenas_', free_txns_ |-> free_txns_',
                                                client_to_txn_ |-> client_to_txn_']]_vars

\* The command c carries the parameter txn with a text that is no
\* hexadecimal number.
UnparseableTxn(c) ==
    LET v == param_value(c.uri.query, kParamTransactionID)
    IN /\ v.present
       /\ v.null \/ v.value = <<>> \/ StrToULL(v.value).end # Len(v.value) + 1

\* C18: an unparseable transaction id is an error. A write or read whose txn
\* parameter is present but no hexadecimal number returns invalid-argument
\* and makes no engine call.
C18_UnparseableTxnRejected ==
    [][(/\ ReturnStep
        /\ ret'.cmd.uri.verb \in {"write", "read"}
        /\ UnparseableTxn(ret'.cmd)) =>
          /\ ret'.code = "Invalid"
          /\ ret'.cmd.calls = 0]_vars

\* The errors of the session manager and the outcome each one is: not-found
\* for an absent session, conflict for an executing session and for a
\* duplicate txn_begin, capacity-exhausted for a full pool without a victim.
SessionErrors == {"not_found", "conflict", "duplicate", "exhausted"}
SessionOutcome(err) ==
    CASE err = "not_found" -> "not-found"
      [] err \in {"conflict", "duplicate"} -> "conflict"
      [] err = "exhausted" -> "capacity-exhausted"

\* C19: session errors are typed. The code of the status a handler returns
\* for a session error differs from the code the handlers return for a
\* session error of another outcome: not-found, conflict and
\* capacity-exhausted carry three pairwise distinct codes.
C19_SessionErrorsTyped ==
    ret.err \in SessionErrors =>
        \A other \in SessionErrors :
            SessionOutcome(other) # SessionOutcome(ret.err) => ar_status_code(other) # ret.code

\* ---------------------------------------------------- eviction, continued

\* v is a non-executing session whose last_access is the smallest among the
\* non-executing sessions.
OldestIdle(v) ==
    /\ ~client_to_txn_[v].executing
    /\ \A s \in Sessions : ~client_to_txn_[s].executing =>
          client_to_txn_[v].last_access <= client_to_txn_[s].last_access

\* Some non-executing session is at least the idle timeout old.
SomeIdleExpired ==
    \E s \in Sessions : ~client_to_txn_[s].executing /\ AgeMs(client_to_txn_[s]) >= milliseconds_timeout

\* C28: victim selection ignores executing sessions and the iteration order.
\* With the pool exhausted and at least one non-executing session of age at
\* least the idle timeout in the map, every request_txn for a new session id
\* succeeds and evicts a non-executing session of smallest last_access,
\* whichever order the map iterates in and whichever executing sessions the
\* map also holds.
C28_VictimIsOldestIdle ==
    [][\A h \in Handlers :
          (/\ RequestTxnStep(h) /\ RequestTxnSid(h) \notin Sessions
           /\ PoolExhausted /\ SomeIdleExpired) =>
              /\ pc'[h] = "txn_begin"
              /\ \E v \in Sessions : OldestIdle(v) /\ evicted' = v]_vars

\* A step in which pop removed a session from the map.
EvictionStep == evicted' # NoSession /\ ~crashed'

\* C29: eviction never takes an executing session. Whenever pop, reached from
\* request_txn or request_arena, removes a session from the map and hands its
\* handles to the caller, the executing flag of that session is false.
C29_EvictionSparesExecuting ==
    [][EvictionStep =>
          /\ evicted' \in Sessions
          /\ ~client_to_txn_[evicted'].executing
          /\ \A s \in Sessions : client_to_txn_[s].executing =>
                (s \in DOMAIN client_to_txn_' /\ client_to_txn_'[s] = client_to_txn_[s])]_vars

\* C29, reached: a session has just been evicted while another session of the
\* map is executing and at least as old.
C29_Witness ==
    /\ evicted # NoSession /\ evicted \notin Sessions
    /\ \E s \in Sessions : client_to_txn_[s].executing /\ AgeMs(client_to_txn_[s]) >= 1

\* C30: only the admission of a new session evicts. The request_arena step
\* of a non-transactional data request (txn = 0) removes no session from the
\* session map.
C30_DataRequestNeverEvicts ==
    [][\A h \in Handlers : RequestArenaStep(h) => DOMAIN client_to_txn_' = DOMAIN client_to_txn_]_vars

\* ------------------------------------------------- two clients, one txn id

\* The session ids of two peers that send the same transaction id.
TwoClientIds == [client_id : {1, 2}, txn_id : {1}]

NextTwoClients ==
    \/ \E h \in Handlers, id \in TwoClientIds : TxnBegin(h, id)
    \/ \E h \in Handlers, engine_ok \in BOOLEAN : TxnBeginInit(h, engine_ok)
    \/ \E h \in Handlers, id \in TwoClientIds : TxnCommit(h, id)
    \/ \E h \in Handlers : TxnCommitFailed(h)
    \/ \E h \in Handlers, engine_ok \in BOOLEAN : TxnCommitFinish(h, engine_ok)
    \/ \E h \in Handlers, id \in TwoClientIds : Lock(h, id)
    \/ \E h \in Handlers : LockFailed(h)
    \/ \E h \in Handlers, engine_ok \in BOOLEAN : Unlock(h, engine_ok)
    \/ \E d \in TickSteps : Tick(d)

SpecTwoClients == Init /\ [][NextTwoClients]_vars

\* b is the id another client forms from the transaction id of a's session:
\* a is a session of the map, b differs from a in the client only and is no
\* session itself.
ForeignUse(a, b) ==
    /\ a \in Sessions /\ a.txn_id # 0
    /\ b.txn_id = a.txn_id /\ b.client_id # a.client_id
    /\ b \notin Sessions

\* Handler h calls continue_txn for the id b: directly in txn_commit, or
\* through lock.
ContinueTxnStep(h, b) ==
    /\ pc[h] = "idle" /\ sid'[h] = b
    /\ pc'[h] \in {"txn_commit", "txn_commit_failed", "locked", "lock_failed"}

\* Handler h finishes the request for b that failed with not-found.
NotFoundReturnStep(h, b) ==
    /\ pc[h] \in {"txn_commit_failed", "lock_failed"} /\ sid[h] = b /\ status[h] = "not_found"
    /\ pc'[h] = "idle"

\* The record of session a is what it was.
RecordKept(a) == a \in DOMAIN client_to_txn_' /\ client_to_txn_'[a] = client_to_txn_[a]

\* C27: sessions are private to their client. When client B sends a
\* txn_commit or a data request (lock, hence continue_txn) with the
\* transaction id of a session of another client A, the call fails with
\* not-found, the handler returns that error, and A's record (handles,
\* executing flag, last_access) is the same after each step of B's request.
C27_SessionsPrivate ==
    [][\A h \in Handlers, a, b \in TwoClientIds :
          /\ (ForeignUse(a, b) /\ ContinueTxnStep(h, b)) =>
                /\ pc'[h] \in {"txn_commit_failed", "lock_failed"}
                /\ status'[h] = "not_found"
                /\ session'[h].txn = NullHandle /\ session'[h].arena = NullHandle
                /\ RecordKept(a)
          /\ (a \in Sessions /\ a.client_id # b.client_id /\ NotFoundReturnStep(h, b)) =>
                /\ ret'.err = "not_found"
                /\ RecordKept(a)]_vars

\* C27, reached: a request of one client for the transaction id of another
\* client's session has returned not-found, some time after that session was
\* last used, and the session is still in the map.
C27_Witness ==
    /\ ret.err = "not_found" /\ ret.verb \in {"txn_commit", "data"}
    /\ \E a \in Sessions :
          /\ a.client_id # ret.sid.client_id /\ a.txn_id = ret.sid.txn_id
          /\ client_to_txn_[a].last_access < now

\* ------------------------------------------------ C21, C22: the actions

\* The command lacks a parameter its verb requires, or carries the one its
\* verb forbids; a parameter is in the command when its name is delimited as
\* the parameter parser is specified.
MissingRequired(uri) ==
    \/ uri.verb = "collection_open" /\ ~Delimited(uri.query, kParamCollectionName)
    \/ uri.verb = "collection_drop" /\ ~Delimited(uri.query, kParamCollectionID)
    \/ uri.verb = "snapshot_drop" /\ ~Delimited(uri.query, kParamSnapshotID)
    \/ uri.verb = "snapshot_open" /\ Delimited(uri.query, kParamSnapshotID)
    \/ uri.verb = "txn_commit" /\ ~Delimited(uri.query, kParamTransactionID)

\* The handler answered with invalid-argument, made no engine call and left
\* the session map and the free stacks alone.
RejectedUntouched(h) ==
    /\ ~crashed' /\ pc'[h] = "idle"
    /\ ret'.code = "Invalid" /\ ret'.cmd.calls = 0
    /\ ManagerNext = Manager
    /\ store' = store /\ txn_writes' = txn_writes

\* C21: required parameters are checked before any effect. collection_open
\* without col_name, collection_drop without col, snapshot_drop without snap,
\* snapshot_open with snap and txn_commit without txn return invalid-argument
\* without an engine call and without a change to the session map or the
\* free stacks.
C21_RequiredParamsChecked ==
    [][\A h \in Handlers, client \in ClientIds, uri \in AdminUris :
          (MissingRequired(uri) /\ DoAction(h, client, uri)) => RejectedUntouched(h)]_vars

\* The text of parameter k in s: what follows "k=" up to the next "&" or the
\* end, and nothing when k is absent or bare.
ParamText(s, k) ==
    LET at == {i \in 1 .. Len(s) : DelimitedAt(s, k, i)}
    IN IF at = {} THEN <<>>
       ELSE LET i == CHOOSE x \in at : \A y \in at : x <= y
                j == i + Len(k)
            IN IF j > Len(s) \/ s[j] # "=" THEN <<>>
               ELSE SubSeq(s, j + 1, StdFind(s, "&", j + 1) - 1)

\* The drop mode the specification derives from the text of drop_mode.
SpecifiedDropMode(text) ==
    IF text = kParamDropModeValues THEN "ustore_drop_vals_k"
    ELSE IF text = kParamDropModeContents THEN "ustore_drop_keys_vals_k"
    ELSE "ustore_drop_keys_vals_handle_k"

\* C22: drop-mode mapping. Whenever collection_drop calls the engine, the
\* mode it passes is 'values only' iff drop_mode is `values`, 'keys and
\* values' iff drop_mode is `contents`, and 'keys, values and the collection'
\* for any other text, a bare drop_mode and no drop_mode at all.
C22_DropModeMapping ==
    [][\A h \in Handlers, client \in ClientIds, uri \in AdminUris :
          (/\ uri.verb = "collection_drop"
           /\ ~crashed' /\ ret'.cmd.calls = 1 /\ ret'.cmd.uri = uri
           /\ DoAction(h, client, uri)) =>
              ret'.cmd.mode = SpecifiedDropMode(ParamText(uri.query, kParamDropMode))]_vars

\* C22, reached: a collection_drop whose drop_mode precedes col has dropped
\* keys and values and kept the collection.
C22_Witness ==
    /\ ret.verb = "collection_drop" /\ ret.code = "OK" /\ ret.cmd.calls = 1
    /\ ret.cmd.uri.query = Query2(KeyValue(kParamDropMode, kParamDropModeContents), ColOne)
    /\ ret.cmd.mode = "ustore_drop_keys_vals_k" /\ ret.cmd.id = 1

\* ------------------------------------------- C23 .. C26: response shapes

\* The response has been built for the request.
Marshalled == batch # NoBatch

\* C23: scan and sample response shape. For N input rows the response has
\* exactly two columns, `keys` with the concatenated result keys and
\* `offsets` with the N + 1 prefix sums of the per-row counts; the length of
\* `offsets` is N + 1 whatever N and the number of results.
C23_ScanShape ==
    (Marshalled /\ request.verb \in {"scan", "sample"}) =>
        /\ batch.status = "ok"
        /\ batch.n_children = 2 /\ Len(batch.children) = 2
        /\ batch.children[1].filled /\ batch.children[1].name = "keys"
        /\ batch.children[1].length = Accumulate(request.found_counts)
        /\ batch.children[2].filled /\ batch.children[2].name = "offsets"
        /\ batch.children[2].contents.items = PrefixSums(request.found_counts)
        /\ batch.children[2].length = request.tasks_count + 1

\* C24: match_path response shape. For N input rows the column `lengths` has
\* exactly N entries, entry i being the number of matches the engine found
\* for row i, and the column `vals` is there iff part is not `lengths`.
C24_MatchPathShape ==
    (Marshalled /\ request.verb = "match_path") =>
        /\ batch.status = "ok"
        /\ batch.n_children >= 1
        /\ batch.children[1].filled /\ batch.children[1].name = "lengths"
        /\ batch.children[1].length = request.tasks_count
        /\ Len(batch.children[1].contents.items) >= request.tasks_count
        /\ \A i \in 1 .. request.tasks_count : batch.children[1].contents.items[i] = request.found_counts[i]
        /\ (batch.n_children = 2 /\ batch.children[2].filled /\ batch.children[2].name = "vals")
              <=> ~OptEquals(request.read_part, kParamReadPartLengths)
        /\ batch.n_children \in {1, 2}

\* The least number of bytes that hold n bits.
BytesFor(n) == CHOOSE b \in 0 .. n : 8 * b >= n /\ \A c \in 0 .. n : 8 * c >= n => b <= c

\* C25: read response shape. For a read or read_path of N keys the response
\* has exactly one column: `vals` (binary, length N) when part is absent or
\* unrecognised, `lengths` (u32, length N, the engine's presence bitmap as
\* validity bitmap) when part is `lengths`, and `presences` (u8, length
\* ceil(N/8), no validity bitmap) when part is `presences`.
C25_ReadShape ==
    (Marshalled /\ request.verb \in {"read", "read_path"}) =>
        /\ batch.status = "ok"
        /\ batch.n_children = 1 /\ Len(batch.children) = 1
        /\ batch.children[1].filled
        /\ IF OptEquals(request.read_part, kParamReadPartPresences)
           THEN /\ batch.children[1].name = "presences" /\ batch.children[1].format = "u8"
                /\ batch.children[1].length = BytesFor(request.tasks_count)
                /\ batch.children[1].validity = NullBuffer /\ ~batch.children[1].nullable
                /\ batch.children[1].contents.name = "found_presences"
           ELSE IF OptEquals(request.read_part, kParamReadPartLengths)
           THEN /\ batch.children[1].name = "lengths" /\ batch.children[1].format = "u32"
                /\ batch.children[1].length = request.tasks_count
                /\ batch.children[1].validity.name = "found_presences" /\ batch.children[1].nullable
                /\ batch.children[1].contents.name = "found_lengths"
           ELSE /\ batch.children[1].name = "vals" /\ batch.children[1].format = "bin"
                /\ batch.children[1].length = request.tasks_count

\* C25, reached: the lengths of nine keys are marshalled with the presence
\* bitmap as validity bitmap.
C25_Witness ==
    /\ Marshalled /\ request.verb = "read_path" /\ request.tasks_count = 9
    /\ OptEquals(request.read_part, kParamReadPartLengths)
    /\ batch.children[1].name = "lengths" /\ batch.children[1].length = 9
    /\ Len(batch.children[1].validity.items) = 2

\* C26: list responses declare only populated columns. Whenever DoGet hands a
\* batch to the import, list_cols declares exactly two children (u64 ids,
\* utf8 names), list_snaps exactly one (u64 ids), and every child counted by
\* n_children has been filled by ustore_to_arrow_column.
C26_ListShape ==
    (Marshalled /\ request.verb \in {"list_cols", "list_snaps"} /\ batch.status # "no_stream") =>
        /\ batch.n_children = Len(batch.children)
        /\ \A i \in 1 .. batch.n_children : batch.children[i].filled
        /\ request.verb = "list_cols" =>
              /\ batch.n_children = 2
              /\ batch.children[1].format = "u64" /\ batch.children[2].format = "str"
        /\ request.verb = "list_snaps" =>
              /\ batch.n_children = 1
              /\ batch.children[1].format = "u64"

\* ------------------------------------------------- a txn_begin that is retried

\* DoAction, txn_begin: request_txn, sent again by a client whose txn_begin
\* found the pool exhausted, for a session id that is not in the map. The
\* transport delivers the same request once more.
TxnBeginRetry(h, id) ==
    /\ UNCHANGED paramVars
    /\ UNCHANGED shapeVars
    /\ UNCHANGED queryVars
    /\ UNCHANGED engineVars
    /\ ~crashed /\ pc[h] = "idle"
    /\ PoolExhausted /\ id \notin Sessions
    /\ requests' = requests
    /\ \E r \in request_txn(Manager, id, now) :
          IF r.err = "crash" THEN Crash
          ELSE /\ SetManager(r.m)
               /\ evicted' = Victim(Manager, r.m)
               /\ IF r.err = "ok"
                  THEN Enter(h, "txn_begin", id, r.out, "ok")
                  ELSE Return(h, "txn_begin", id, r.err, NullRunning)
               /\ UNCHANGED <<now, ticks, crashed>>

\* The transport hands the status of the refused txn_begin to the client.
Refused ==
    /\ UNCHANGED paramVars
    /\ UNCHANGED shapeVars
    /\ UNCHANGED queryVars
    /\ UNCHANGED engineVars
    /\ ~crashed /\ ret.verb = "txn_begin" /\ ret.err = "exhausted"
    /\ ret' = NoReturn
    /\ UNCHANGED <<free_arenas_, free_txns_, client_to_txn_, now, ticks, requests, pc, sid, session, status, cmd,
                   evicted, crashed>>

NextRetry ==
    \/ \E h \in Handlers, id \in SessionIds : TxnBegin(h, id)
    \/ \E h \in Handlers, engine_ok \in BOOLEAN : TxnBeginInit(h, engine_ok)
    \/ \E h \in Handlers, id \in SessionIds : Lock(h, id)
    \/ \E h \in Handlers : LockFailed(h)
    \/ \E h \in Handlers, engine_ok \in BOOLEAN : Unlock(h, engine_ok)
    \/ \E d \in TickSteps : Tick(d)
    \/ \E h \in Handlers, id \in SessionIds : TxnBeginRetry(h, id)
    \/ Refused

\* The client keeps sending its txn_begin: the retry is weakly fair, and so is
\* the delivery of each refusal. Nothing is assumed of the other requests.
SpecRetry ==
    /\ Init
    /\ [][NextRetry]_vars
    /\ WF_vars(\E h \in Handlers, id \in SessionIds : TxnBeginRetry(h, id))
    /\ WF_vars(Refused)

\* The pool is exhausted, a non-executing session of the map has reached the
\* idle timeout, and a handler thread and a session id are there for the
\* txn_begin that is retried.
Starved ==
    /\ ~crashed /\ PoolExhausted /\ SomeIdleExpired
    /\ \E h \in Handlers : pc[h] = "idle"
    /\ \E id \in SessionIds : id \notin Sessions

\* A txn_begin is past its request_txn, which succeeded.
BeginAdmitted == \E h \in Handlers : pc[h] = "txn_begin"

NonTxnStep(h, from, to) ==
    /\ pc[h] \in from /\ pc'[h] \in to
    /\ ~session_id_is_txn(sid[h])

\* C32: non-transactional requests are frame-neutral. A request with txn = 0
\* that finds free_arenas non-empty takes exactly the arena at the back of
\* the stack and leaves the session map and free_txns alone; while it runs
\* it changes nothing of the manager; and when it returns, with whatever
\* status, it pushes exactly that arena back and again leaves the session
\* map and free_txns alone.
C32_NonTxnFrameNeutral ==
    [][\A h \in Handlers :
          /\ (RequestArenaStep(h) /\ Len(free_arenas_) > 0) =>
                /\ pc'[h] = "locked"
                /\ session'[h].arena = Back(free_arenas_) /\ session'[h].txn = NullHandle
                /\ free_arenas_' = PopBack(free_arenas_)
                /\ free_txns_' = free_txns_ /\ client_to_txn_' = client_to_txn_
          /\ NonTxnStep(h, {"locked"}, {"called"}) =>
                (ManagerNext = Manager /\ session'[h] = session[h])
          /\ NonTxnStep(h, {"locked", "called"}, {"idle", "streaming"}) =>
                /\ free_arenas_' = PushBack(free_arenas_, session[h].arena)
                /\ free_txns_' = free_txns_ /\ client_to_txn_' = client_to_txn_]_vars

\* C32, reached: a request without a transaction has returned an error, and
\* the arena it borrowed from the non-empty stack is the one on top again.
C32_Witness ==
    /\ ret.verb = "data" /\ ret.err # "ok" /\ ~session_id_is_txn(ret.sid)
    /\ ret.arena # NullHandle /\ Back(free_arenas_) = ret.arena
    /\ Len(free_arenas_) = Capacity /\ Sessions = {}

\* ------------------------------------------------ the value of a parameter

\* The characters of s between position i and the next "&" at or after i, or
\* the end of s.
UpToAmpersand(s, i) ==
    LET ends == {j \in i .. Len(s) : s[j] = "&"}
    IN SubSeq(s, i, (IF ends = {} THEN Len(s) + 1 ELSE CHOOSE j \in ends : \A e \in ends : j <= e) - 1)

\* C33: URI parameter value extraction. When param_value reports the key
\* present, the occurrence it used is the first one in the string that
\* satisfies the boundary rule; if "=" follows that occurrence the value
\* returned is exactly the characters between the "=" and the next "&" (or
\* the end of the string), and if "&" or the end of the string follows it
\* the value returned is empty.
C33_ParamValueExtraction ==
    (found # NotCalled /\ found.present) =>
        LET s == query_params
            k == param_name
            i == KeyBeginFrom(s, k, 1)
            after == i + Len(k)
        IN /\ DelimitedAt(s, k, i)
           /\ \A j \in 1 .. i - 1 : ~DelimitedAt(s, k, j)
           /\ (after <= Len(s) /\ s[after] = "=") => found.value = UpToAmpersand(s, after + 1)
           /\ (after = Len(s) + 1 \/ s[after] = "&") => found.value = <<>>

\* ------------------------------------------------------ is_query on its own

\* The verbs of the command set, one character per element.
VerbNames ==
    {<<"c", "o", "l", "l", "e", "c", "t", "i", "o", "n", "_", "o", "p", "e", "n">>,
     <<"c", "o", "l", "l", "e", "c", "t", "i", "o", "n", "_", "d", "r", "o", "p">>,
     <<"s", "n", "a", "p", "s", "h", "o", "t", "_", "o", "p", "e", "n">>,
     <<"s", "n", "a", "p", "s", "h", "o", "t", "_", "d", "r", "o", "p">>,
     <<"t", "x", "n", "_", "b", "e", "g", "i", "n">>,
     <<"t", "x", "n", "_", "c", "o", "m", "m", "i", "t">>,
     <<"r", "e", "a", "d">>,
     <<"r", "e", "a", "d", "_", "p", "a", "t", "h">>,
     <<"m", "a", "t", "c", "h", "_", "p", "a", "t", "h">>,
     <<"s", "c", "a", "n">>,
     <<"s", "a", "m", "p", "l", "e">>,
     <<"w", "r", "i", "t", "e">>,
     <<"w", "r", "i", "t", "e", "_", "p", "a", "t", "h">>,
     <<"l", "i", "s", "t", "_", "c", "o", "l", "s">>,
     <<"l", "i", "s", "t", "_", "s", "n", "a", "p", "s">>}

\* The command strings is_query is given: a verb or the beginning of one,
\* followed by nothing, by parameters or by other text.
CommandStrings ==
    LET tails ==
        {<<>>,
         <<"?">>,
         <<"?", "t", "x", "n", "=", "1">>,
         <<"?", "p", "a", "r", "t", "=", "l", "e", "n", "g", "t", "h", "s", "&", "t", "x", "n", "=", "1">>,
         <<"_", "p", "a", "t", "h">>,
         <<"_", "p", "a", "t", "h", "?", "t", "x", "n", "=", "1">>,
         <<"?", "_", "p", "a", "t", "h">>,
         <<"s">>,
         <<"/">>,
         <<"&", "t", "x", "n", "=", "1">>,
         <<"=", "1">>}
    IN UNION {{SubSeq(v, 1, n) \o tail : n \in {Len(v) - 1, Len(v)}, tail \in tails} : v \in VerbNames}

InitQuery ==
    /\ free_arenas_ = [i \in 1 .. Capacity |-> i]
    /\ free_txns_ = [i \in 1 .. Capacity |-> i]
    /\ client_to_txn_ = [k \in {} |-> NullRunning]
    /\ now = 0
    /\ ticks = 0
    /\ requests = 0
    /\ pc = [h \in Handlers |-> "idle"]
    /\ sid = [h \in Handlers |-> NoSession]
    /\ session = [h \in Handlers |-> NullRunning]
    /\ status = [h \in Handlers |-> "ok"]
    /\ ret = NoReturn
    /\ evicted = NoSession
    /\ crashed = FALSE
    /\ store = EmptyStore
    /\ txn_writes = [t \in Slots |-> NoWrites]
    /\ last_write = NoWrite
    /\ cmd = [h \in Handlers |-> NoCmd]
    /\ query_params = ExampleParams
    /\ param_name = <<"a">>
    /\ found = NotCalled
    /\ request = NoRequest
    /\ batch = NoBatch
    /\ command \in CommandStrings
    /\ matched = NoneMatched
    /\ column_args = NoColumnArgs
    /\ column_built = NoColumn

\* is_query with the test of the character after the name left out.
is_query_prefix(uri, name) ==
    IF Len(uri) > Len(name)
    THEN SubSeq(uri, 1, Len(name)) = name
    ELSE uri = name

\* is_query(uri, name) on the characters of the command string.
is_query_text(uri, name) ==
    IF Len(uri) > Len(name)
    THEN SubSeq(uri, 1, Len(name)) = name /\ uri[Len(name) + 1] = "?"
    ELSE uri = name

\* One call of is_query on the command string drawn, as the dispatch of a
\* handler makes it for a verb of its chain.
IsQuery(name) ==
    /\ ~matched.called
    /\ matched' = [called |-> TRUE, name |-> name, result |-> is_query_text(command, name)]
    /\ UNCHANGED <<free_arenas_, free_txns_, client_to_txn_, now, ticks, requests, pc, sid, session, status, ret, evicted, crashed>>
    /\ UNCHANGED <<store, txn_writes, last_write, cmd>>
    /\ UNCHANGED paramVars
    /\ UNCHANGED shapeVars
    /\ UNCHANGED <<command, column_args, column_built>>

NextQuery == \E name \in VerbNames : IsQuery(name)

SpecQuery == InitQuery /\ [][NextQuery]_vars

\* The command string s is the verb v, or v followed by "?" and any text.
VerbOf(s, v) == s = v \/ (Len(s) > Len(v) /\ SubSeq(s, 1, Len(v)) = v /\ s[Len(v) + 1] = "?")

\* v with "_path" appended.
PathVerb(v) == v \o <<"_", "p", "a", "t", "h">>

\* C34: verb dispatch is unambiguous. is_query accepts a command string for
\* the verb v exactly when the string is v or begins with v immediately
\* followed by "?"; so at most one verb of the command set is accepted for a
\* command string, and a command accepted for a verb is not accepted for
\* that verb with _path appended, nor the other way round.
C34_DispatchUnambiguous ==
    matched.called =>
        /\ matched.result <=> VerbOf(command, matched.name)
        /\ matched.result =>
              /\ \A v \in VerbNames \ {matched.name} : ~is_query_text(command, v)
              /\ ~is_query_text(command, PathVerb(matched.name))
              /\ \A v \in VerbNames : matched.name = PathVerb(v) => ~is_query_text(command, v)

\* C34, reached: is_query was called with read_path on a command that begins
\* with read and has parameters, and refused it.
C34_Witness ==
    /\ matched.called /\ ~matched.result
    /\ matched.name = PathVerb(<<"r", "e", "a", "d">>)
    /\ VerbOf(command, <<"r", "e", "a", "d">>) /\ Len(command) > 4

\* ------------------------------------------- the column builders on their own

\* The field types of the switch in ustore_to_arrow_column.
FieldTypes ==
    {"bool", "uuid", "i8", "i16", "i32", "i64", "u8", "u16", "u32", "u64", "f16", "f32", "f64",
     "bin", "str", "null"}

\* The arguments of a call: for docs_count rows a validity bitmap or none,
\* offsets that give every row one entry, and the contents.
ColumnArgs ==
    UNION {[fn : {"ustore_to_arrow_column", "ustore_to_arrow_list"},
            docs_count : {n},
            field_type : FieldTypes,
            column_validities : {NullBuffer, Buffer("validities", "u8", Opaque(divide_round_up(n, CHAR_BIT)))},
            column_offsets : {Buffer("offsets", "u32", [i \in 1 .. n + 1 |-> i - 1])},
            column_contents : {Buffer("contents", "any", Opaque(n))}] : n \in 0 .. MaxRows}

InitColumn ==
    /\ free_arenas_ = [i \in 1 .. Capacity |-> i]
    /\ free_txns_ = [i \in 1 .. Capacity |-> i]
    /\ client_to_txn_ = [k \in {} |-> NullRunning]
    /\ now = 0
    /\ ticks = 0
    /\ requests = 0
    /\ pc = [h \in Handlers |-> "idle"]
    /\ sid = [h \in Handlers |-> NoSession]
    /\ session = [h \in Handlers |-> NullRunning]
    /\ status = [h \in Handlers |-> "ok"]
    /\ ret = NoReturn
    /\ evicted = NoSession
    /\ crashed = FALSE
    /\ store = EmptyStore
    /\ txn_writes = [t \in Slots |-> NoWrites]
    /\ last_write = NoWrite
    /\ cmd = [h \in Handlers |-> NoCmd]
    /\ query_params = ExampleParams
    /\ param_name = <<"a">>
    /\ found = NotCalled
    /\ request = NoRequest
    /\ batch = NoBatch
    /\ command = <<>>
    /\ matched = NoneMatched
    /\ column_args \in ColumnArgs
    /\ column_built = NoColumn

\* malloc(sizeof(void*) * n): a block of n slots, or for a request of no
\* bytes possibly the null pointer.
malloc(n) == IF n = 0 THEN {"null", "block"} ELSE {"block"}

\* The column after `if (!array->buffers) return`: nothing is linked.
AllocationFailed(c) == [c EXCEPT !.filled = FALSE, !.written = {}]

\* The column is filled in; nothing else changes.
BuiltColumn(c) ==
    /\ column_built = NoColumn
    /\ column_built' = c
    /\ UNCHANGED <<free_arenas_, free_txns_, client_to_txn_, now, ticks, requests, pc, sid, session, status, ret, evicted, crashed>>
    /\ UNCHANGED <<store, txn_writes, last_write, cmd>>
    /\ UNCHANGED paramVars
    /\ UNCHANGED shapeVars
    /\ UNCHANGED <<command, matched, column_args>>

\* One call of ustore_to_arrow_column on the arguments drawn.
ArrowColumn ==
    /\ column_args.fn = "ustore_to_arrow_column"
    /\ LET a == column_args
           c == ustore_to_arrow_column(a.docs_count, "column", a.field_type, a.column_validities,
                                       a.column_offsets, a.column_contents)
       IN \E p \in malloc(c.n_buffers) : BuiltColumn(IF p = "null" THEN AllocationFailed(c) ELSE c)

\* One call of ustore_to_arrow_list on the arguments drawn.
ArrowList ==
    /\ column_args.fn = "ustore_to_arrow_list"
    /\ LET a == column_args
           c == ustore_to_arrow_list(a.docs_count, "column", a.field_type, a.column_validities,
                                     a.column_offsets, a.column_contents)
       IN \E p \in malloc(c.children[1].n_buffers) :
             BuiltColumn(IF p = "null" THEN [c EXCEPT !.children[1] = AllocationFailed(@)] ELSE c)

NextColumn == ArrowColumn \/ ArrowList

SpecColumn == InitColumn /\ [][NextColumn]_vars

\* C35: column nullability follows the validity pointer. A column built by
\* ustore_to_arrow_column or ustore_to_arrow_list from a null validity
\* pointer has its nullable flag cleared and null_count = 0, one built from
\* a validity pointer has the flag set and null_count = -1; the child of a
\* list, which is built without validity, has the flag cleared and
\* null_count = 0.
C35_NullabilityFollowsValidity ==
    column_built # NoColumn =>
        LET given == column_args.column_validities # NullBuffer
        IN /\ column_built.nullable = given
           /\ column_built.null_count = (IF given THEN -1 ELSE 0)
           /\ column_args.fn = "ustore_to_arrow_list" =>
                 (~column_built.children[1].nullable /\ column_built.children[1].null_count = 0)

\* C35, reached: a list column is built from a validity bitmap and is
\* nullable, with a child that is not.
C35_Witness ==
    /\ column_built # NoColumn /\ column_built.filled
    /\ column_args.fn = "ustore_to_arrow_list" /\ column_args.docs_count > 0
    /\ column_built.nullable /\ column_built.null_count = -1
    /\ column_built.children[1].filled /\ ~column_built.children[1].nullable

\* C36: buffer slots match the layout. ustore_to_arrow_column sets n_buffers
\* to 0 for the null type, 3 for binary and utf8 and 2 for every other type,
\* allocates exactly n_buffers buffer slots and writes only slots below
\* n_buffers.
C36_BufferSlotsMatchLayout ==
    (column_built # NoColumn /\ column_args.fn = "ustore_to_arrow_column") =>
        /\ column_args.field_type = "null" => column_built.n_buffers = 0
        /\ column_args.field_type \in {"bin", "str"} => column_built.n_buffers = 3
        /\ column_args.field_type \notin {"null", "bin", "str"} => column_built.n_buffers = 2
        /\ column_built.slots = column_built.n_buffers
        /\ \A i \in column_built.written : i < column_built.n_buffers

\* ------------------------------------------- manager calls that fail, continued

\* C37: txn_begin does not leak handles on engine failure. When a txn_begin
\* whose request_txn succeeded has just returned because the engine's
\* transaction initialisation failed, the transaction handle and the arena
\* request_txn handed out are in free_txns and free_arenas again and the
\* session map holds no entry for the requested session id.
C37_BeginFailureReleases ==
    (~crashed /\ ret.verb = "txn_begin" /\ ret.err = "engine") =>
        /\ ret.txn \in Elements(free_txns_)
        /\ ret.arena \in Elements(free_arenas_)
        /\ ret.sid \notin Sessions

\* Handler h takes the continue_txn step of a txn_commit or of the lock of a
\* data request with a transaction, and continue_txn fails.
ContinueTxnFails(h) ==
    /\ pc[h] = "idle" /\ ~crashed'
    /\ \/ pc'[h] = "txn_commit_failed"
       \/ pc'[h] = "lock_failed" /\ session_id_is_txn(sid'[h])

\* Handler h takes the request_txn step of a txn_begin, and request_txn fails.
RequestTxnFails(h) == RequestTxnStep(h) /\ pc'[h] = "idle" /\ ret'.err \in {"duplicate", "exhausted"}

\* C38: failed manager calls change nothing. A continue_txn that fails
\* because the session is absent or executing, and a request_txn that fails
\* because the session id is present or because the pool is exhausted and
\* pop finds no victim, leave the session map with every record's executing
\* flag and last_access, and both free stacks, as they were before the call.
C38_FailedCallsChangeNothing ==
    [][\A h \in Handlers : (ContinueTxnFails(h) \/ RequestTxnFails(h)) => ManagerNext = Manager]_vars

\* C38, reached: a txn_commit stands right after its continue_txn failed on a
\* session that another handler is executing, some time after that session
\* was taken.
C38_Witness ==
    \E h \in Handlers :
        /\ pc[h] = "txn_commit_failed" /\ status[h] = "conflict"
        /\ sid[h] \in Sessions /\ client_to_txn_[sid[h]].executing
        /\ client_to_txn_[sid[h]].last_access < now

\* Handler h takes a request_txn or request_arena step in which pop is
\* called: the session id is new and a free stack is empty, or the arena
\* stack is empty.
PopCalled(h) ==
    /\ pc[h] = "idle" /\ requests' = requests + 1
    /\ \/ crashed'
       \/ RequestTxnStep(h) /\ RequestTxnSid(h) \notin Sessions /\ PoolExhausted
       \/ RequestArenaStep(h) /\ Len(free_arenas_) = 0

\* C39: eviction never inspects an empty map. Whenever request_txn or
\* request_arena finds a free stack empty and calls pop, the session map is
\* non-empty, so that the victim pop selects and dereferences exists; with
\* the free stacks empty and no session in the map the request fails with
\* capacity-exhausted and the end of the map is not dereferenced.
C39_EvictionMapNonEmpty ==
    [][\A h \in Handlers : PopCalled(h) => Sessions # {}]_vars

\* ------------------------------------------------ the copy of the match counts

\* C40: the match_path counts copy stays in bounds. For every match_path
\* request the buffer that receives the copy of the per-row counts has at
\* least as many entries as the copy writes, also when the counts add up to
\* less than the number of rows, and building the response does not fault.
C40_CountsCopyInBounds ==
    (Marshalled /\ request.verb = "match_path") =>
        /\ rounded_counts_copied(request.found_counts) <= rounded_counts_size(request.found_counts)
        /\ batch.status # "fault"

====
